---------------------------- MODULE Spec2Model ----------------------------
(***************************************************************************)
(* Cluster control plane of the Parseable server                          *)
(* (src/handlers/http/cluster/mod.rs): the querier dispatcher             *)
(* (QUERIER_MAP, LAST_USED_QUERIER, get_available_querier,                *)
(* mark_querier_available, send_query_request), the fan-out executor      *)
(* for_each_live_ingestor and the requests sent to one ingestor, the      *)
(* metrics scheduler, the two collection passes, the billing             *)
(* aggregation (extract_billing_metrics_from_samples), the admin          *)
(* operations get_cluster_info, remove_node and                           *)
(* get_demo_data_from_ingestor, the guards of the two dispatcher locks,   *)
(* and flatten_objects_for_count of src/query/mod.rs.                     *)
(*                                                                         *)
(* Option<T> is modelled as a set with at most one element: None is {},   *)
(* Some(x) is {x}.  A HashMap is modelled as the sequence of its entries  *)
(* in iteration order (keys are unique).                                  *)
(***************************************************************************)
EXTENDS Integers, Sequences, FiniteSets, TLC

\* ------------------------------------------------------------------ bounds
\* Number of querier domains the metastore may report.
NumQueriers == 2
\* Number of concurrent send_query_request executions (each runs once).
NumQueries == 2
\* Number of sequential acquire/release cycles of the round-robin scenario.
MaxCycles == 5
\* Largest last_used instant of the registries given to the selection step.
MaxInstant == 2
\* Number of ingestors the metastore may report.
NumIngestors == 3

Domains == 1..NumQueriers
Queries == 1..NumQueries
Ingestors == 1..NumIngestors

None == {}
Some(x) == {x}
TheOne(s) == CHOOSE x \in s : TRUE

VARIABLES
    QUERIER_MAP,          \* Seq of QuerierStatus, in map iteration order
    LAST_USED_QUERIER,    \* Option<domain>
    map_lock,             \* Option<query>: holder of QUERIER_MAP.write()
    clock,                \* the last value returned by Instant::now()
    pc,                   \* query -> position in send_query_request
    querier_metadata,     \* query -> set of domains reported by get_node_info
    querier,              \* query -> Option<QuerierMetadata> returned by acquire
    last_cycle,           \* Option<the latest refresh-and-select cycle: live set, result>
    returned,             \* Option<the send_query_request call that returned in the last step>
    cycle_live,           \* round-robin scenario: the fixed live set
    selected,             \* round-robin scenario: the domains selected so far
    holding,              \* round-robin scenario: Option<domain acquired, not yet released>
    select_in,            \* selection step alone: Option<registry and pointer it was given>
    select_out,           \* selection step alone: Option<what it selected>
    ingestor_infos,       \* for_each_live_ingestor: Option<Seq of ingestors from get_node_info>
    probed,               \* for_each_live_ingestor: number of ingestors probed so far
    fan_probes,           \* for_each_live_ingestor: the ingestors probed, in order, with the answers
    live_ingestors,       \* for_each_live_ingestor: Seq of live ingestors
    results,              \* for_each_live_ingestor: Seq of Option<result of api_fn>
    received,             \* the ingestors that have received the request
    fan_pc,               \* for_each_live_ingestor: position
    fan_result,           \* for_each_live_ingestor: Option<value returned>
    operation,            \* sync_users_with_roles_with_ingestors: Option<the operation argument>
    peer_fn,              \* per-peer request: the function that sends it
    peer_ingestor,        \* per-peer request: the ingestor it is sent to
    peer_pc,              \* per-peer request: position
    peer_response,        \* per-peer request: Option<outcome of send().await>
    peer_result,          \* per-peer request: Option<value returned>
    sched_pc,             \* scheduler task: position in the loop
    wait,                 \* scheduler: seconds until the job is due
    tick,                 \* scheduler: number of the latest tick started
    job_pc,               \* tick -> position of that tick's job
    job_log,              \* the steps of the latest tick's job, with their outcomes
    prev_failed,          \* whether the tick before the latest had a failed step
    collect_pass,         \* collection pass: "metrics" or "billing"
    collect_pc,           \* collection pass: position
    node_role,            \* node -> the role the metastore has it under, or "absent"
    metadata_result,      \* role -> outcome of get_node_info for the role
    scrape,               \* node -> Option<outcome of the node's scrape>
    collect_result,       \* collection pass: Option<value returned>
    bill_samples,         \* billing aggregation: the samples given
    bill_node,            \* billing aggregation: Option<node address and node type given>
    bill_events,          \* billing aggregation: Option<events returned>
    bill_first,           \* billing aggregation: Option<samples and events of an earlier call>
    utc_now,              \* the last value returned by Utc::now()
    info_pc,              \* get_cluster_info: position
    info_node_role,       \* get_cluster_info: node -> the role it is registered under, or "absent"
    info_metadata_result, \* get_cluster_info: role -> outcome of get_node_info for the role
    about,                \* get_cluster_info: node -> Option<outcome of the /about exchange>
    info_result,          \* get_cluster_info: Option<value returned>
    rm_pc,                \* remove_node: position
    rm_target,            \* remove_node: the domain name given
    rm_live,              \* remove_node: Option<answer of the liveness probe of the target>
    rm_calls,             \* remove_node: the delete_node_metadata calls made, with what they returned
    rm_result,            \* remove_node: Option<value returned>
    demo_pc,              \* get_demo_data_from_ingestor: position
    demo_infos,           \* get_demo_data_from_ingestor: Option<Seq of ingestors from get_node_info>
    demo_probes,          \* get_demo_data_from_ingestor: the ingestors probed, in order, with the answers
    demo_requests,        \* get_demo_data_from_ingestor: the ingestors a request was sent to, in order
    demo_result,          \* get_demo_data_from_ingestor: Option<value returned>
    flat_objects,         \* flatten_objects_for_count: the argument
    flat_out,             \* flatten_objects_for_count: Option<what the call did>
    lk_kind,              \* task -> the function it runs
    lk_pc,                \* task -> position in that function
    lk_map,               \* Option<task>: holder of the QUERIER_MAP write guard
    lk_ptr_readers,       \* the tasks holding a LAST_USED_QUERIER read guard
    lk_ptr_writer         \* Option<task>: holder of the LAST_USED_QUERIER write guard

dispVars == <<QUERIER_MAP, LAST_USED_QUERIER, map_lock, clock, pc,
              querier_metadata, querier, last_cycle, returned>>
rrVars == <<cycle_live, selected, holding>>
selVars == <<select_in, select_out>>
fanVars == <<ingestor_infos, probed, fan_probes, live_ingestors, results, received,
             fan_pc, fan_result>>

syncVars == <<operation>>
peerVars == <<peer_fn, peer_ingestor, peer_pc, peer_response, peer_result>>

\* The variables of the dispatcher and of the fan-out executor.
clusterVars == <<dispVars, rrVars, selVars, fanVars>>
\* The variables of the other operations.
schedVars == <<sched_pc, wait, tick, job_pc, job_log, prev_failed>>
collectVars == <<collect_pass, collect_pc, node_role, metadata_result, scrape,
                 collect_result>>
billVars == <<bill_samples, bill_node, bill_events, bill_first, utc_now>>

infoVars == <<info_pc, info_node_role, info_metadata_result, about, info_result>>

\* The variables of the admin operations and of the lock discipline.
removeVars == <<rm_pc, rm_target, rm_live, rm_calls, rm_result>>
demoVars == <<demo_pc, demo_infos, demo_probes, demo_requests, demo_result>>
flatVars == <<flat_objects, flat_out>>

lockVars == <<lk_kind, lk_pc, lk_map, lk_ptr_readers, lk_ptr_writer>>

adminVars == <<infoVars, removeVars, demoVars, flatVars, lockVars>>

\* The variables of everything but the admin operations.
nonAdminVars == <<clusterVars, syncVars, peerVars, schedVars, collectVars, billVars>>

otherVars == <<syncVars, peerVars, schedVars, collectVars, billVars, adminVars>>

vars == <<clusterVars, otherVars>>

\* ------------------------------------------------------- QuerierStatus, map
Metadata(d) == [domain_name |-> d]

QuerierStatus(d, avail, used) ==
    [domain |-> d, metadata |-> Metadata(d), available |-> avail, last_used |-> used]

Range(s) == {s[i] : i \in 1..Len(s)}

Keys(map) == {map[i].domain : i \in 1..Len(map)}

Entry(map, d) == CHOOSE e \in Range(map) : e.domain = d

\* All iteration orders of a map whose key set is S.
Perms(S) ==
    {s \in [1..Cardinality(S) -> S] : \A i, j \in 1..Cardinality(S) : s[i] = s[j] => i = j}

\* The iteration orders the refreshed map may have: HashMap::remove and
\* get_mut leave the iteration order of the other entries alone; an insert
\* may rehash, so after an insert the entries may be in any order.
InsertOrders(map, live) ==
    IF live \subseteq Keys(map)
    THEN {[i \in 1..Len(SelectSeq(map, LAMBDA e : e.domain \in live)) |->
              SelectSeq(map, LAMBDA e : e.domain \in live)[i].domain]}
    ELSE Perms(live)

\* RefreshMap that makes every live entry available again.
RefreshMap_ResetAvailable(map, live, order) ==
    [i \in 1..Len(order) |->
        IF order[i] \in Keys(map)
        THEN [Entry(map, order[i]) EXCEPT !.metadata = Metadata(order[i]),
                                          !.available = TRUE]
        ELSE QuerierStatus(order[i], TRUE, None)]

\* RefreshMap without lines 1702-1707: entries that are not live stay.
RefreshMap_NoPrune(map, live, order) ==
    [i \in 1..Len(order) |->
        IF order[i] \in Keys(map)
        THEN [Entry(map, order[i]) EXCEPT !.metadata = Metadata(order[i])]
        ELSE QuerierStatus(order[i], TRUE, None)]
    \o SelectSeq(map, LAMBDA e : e.domain \notin live)

\* Lines 1680-1707 of get_available_querier: a live domain already present
\* keeps available and last_used and gets the fresh metadata; a live domain
\* not present is inserted available and never used; every entry that is not
\* live is removed.  `order` is the iteration order of the result.
RefreshMap(map, live, order) ==
    [i \in 1..Len(order) |->
        IF order[i] \in Keys(map)
        THEN [Entry(map, order[i]) EXCEPT !.metadata = Metadata(order[i])]
        ELSE QuerierStatus(order[i], TRUE, None)]

\* Lines 1734-1743: the domains of the available entries, in iteration order.
available_queriers(map) ==
    LET avail == SelectSeq(map, LAMBDA e : e.available)
    IN  [i \in 1..Len(avail) |-> avail[i].domain]

\* select_next_querier without the writes of lines 1758, 1769, 1776.
select_next_querier_KeepPointer(map, last_used) ==
    LET avail == available_queriers(map)
        after == {i \in 1..Len(avail) : i > 1 /\ Some(avail[i - 1]) = last_used}
    IN  IF Len(avail) = 0
        THEN [selected |-> None, last_used |-> last_used]
        ELSE IF last_used # None /\ after # {}
        THEN [selected |-> Some(avail[TheOne(after)]), last_used |-> last_used]
        ELSE [selected |-> Some(avail[1]), last_used |-> last_used]

\* select_next_querier that ignores LAST_USED_QUERIER when choosing.
select_next_querier_FirstAvailable(map, last_used) ==
    LET avail == available_queriers(map)
    IN  IF Len(avail) = 0
        THEN [selected |-> None, last_used |-> last_used]
        ELSE [selected |-> Some(avail[1]), last_used |-> Some(avail[1])]

\* select_next_querier: the chosen domain and the new LAST_USED_QUERIER.
select_next_querier(map, last_used) ==
    LET avail == available_queriers(map)
        after == {i \in 1..Len(avail) : i > 1 /\ Some(avail[i - 1]) = last_used}
    IN  IF Len(avail) = 0
        THEN [selected |-> None, last_used |-> last_used]
        ELSE IF last_used # None /\ after # {}
        THEN [selected |-> Some(avail[TheOne(after)]),
              last_used |-> Some(avail[TheOne(after)])]
        ELSE [selected |-> Some(avail[1]), last_used |-> Some(avail[1])]

\* lru_loop with the comparison of line 1810 reversed.
RECURSIVE lru_loop_Reversed(_, _, _, _)
lru_loop_Reversed(map, i, candidate, oldest_time) ==
    IF i > Len(map)
    THEN candidate
    ELSE LET status == map[i]
         IN  IF status.last_used = None
             THEN lru_loop_Reversed(map, i + 1, Some(status.domain), None)
             ELSE IF oldest_time = None
             THEN IF candidate = None
                  THEN lru_loop_Reversed(map, i + 1, Some(status.domain), status.last_used)
                  ELSE lru_loop_Reversed(map, i + 1, candidate, oldest_time)
             ELSE IF TheOne(status.last_used) > TheOne(oldest_time)
                  THEN lru_loop_Reversed(map, i + 1, Some(status.domain), status.last_used)
                  ELSE lru_loop_Reversed(map, i + 1, candidate, oldest_time)

select_least_recently_used_querier_Reversed(map) ==
    IF Len(map) = 0 THEN None ELSE lru_loop_Reversed(map, 1, None, None)

\* The loop of select_least_recently_used_querier from entry i on, with the
\* loop's two locals: the candidate domain and oldest_time.
RECURSIVE lru_loop(_, _, _, _)
lru_loop(map, i, candidate, oldest_time) ==
    IF i > Len(map)
    THEN candidate
    ELSE LET status == map[i]
         IN  IF status.last_used = None
             THEN lru_loop(map, i + 1, Some(status.domain), None)
             ELSE IF oldest_time = None
             THEN IF candidate = None
                  THEN lru_loop(map, i + 1, Some(status.domain), status.last_used)
                  ELSE lru_loop(map, i + 1, candidate, oldest_time)
             ELSE IF TheOne(status.last_used) < TheOne(oldest_time)
                  THEN lru_loop(map, i + 1, Some(status.domain), status.last_used)
                  ELSE lru_loop(map, i + 1, candidate, oldest_time)

select_least_recently_used_querier(map) ==
    IF Len(map) = 0 THEN None ELSE lru_loop(map, 1, None, None)

\* Dispatched without `status.available = false` (lines 1713 and 1722).
Dispatched_KeepAvailable(map, d, now) ==
    [i \in 1..Len(map) |->
        IF map[i].domain = d THEN [map[i] EXCEPT !.last_used = Some(now)] ELSE map[i]]

\* Dispatched without the stamp of lines 1714 and 1723.
Dispatched_NoStamp(map, d, now) ==
    [i \in 1..Len(map) |->
        IF map[i].domain = d THEN [map[i] EXCEPT !.available = FALSE] ELSE map[i]]

\* Dispatched that stamps every entry with the instant.
Dispatched_StampAll(map, d, now) ==
    [i \in 1..Len(map) |->
        IF map[i].domain = d
        THEN [map[i] EXCEPT !.available = FALSE, !.last_used = Some(now)]
        ELSE [map[i] EXCEPT !.last_used = Some(now)]]

\* Lines 1713-1714 and 1722-1723: the chosen entry is dispatched.
Dispatched(map, d, now) ==
    [i \in 1..Len(map) |->
        IF map[i].domain = d
        THEN [map[i] EXCEPT !.available = FALSE, !.last_used = Some(now)]
        ELSE map[i]]

\* SelectAndDispatch whose fallback also writes the chosen domain to
\* LAST_USED_QUERIER.
SelectAndDispatch_LruAdvances(map, last_used, now) ==
    LET rr == select_next_querier(map, last_used)
        lru == select_least_recently_used_querier(map)
    IN  IF rr.selected # None
        THEN [map |-> Dispatched(map, TheOne(rr.selected), now),
              last_used |-> rr.last_used,
              strategy |-> "round_robin",
              ret |-> Some(Entry(map, TheOne(rr.selected)).metadata)]
        ELSE IF lru # None
        THEN [map |-> Dispatched(map, TheOne(lru), now),
              last_used |-> lru,
              strategy |-> "lru",
              ret |-> Some(Entry(map, TheOne(lru)).metadata)]
        ELSE [map |-> map, last_used |-> rr.last_used,
              strategy |-> "none", ret |-> None]

\* SelectAndDispatch without the fallback of lines 1718-1725.
SelectAndDispatch_NoFallback(map, last_used, now) ==
    LET rr == select_next_querier(map, last_used)
    IN  IF rr.selected # None
        THEN [map |-> Dispatched(map, TheOne(rr.selected), now),
              last_used |-> rr.last_used,
              strategy |-> "round_robin",
              ret |-> Some(Entry(map, TheOne(rr.selected)).metadata)]
        ELSE [map |-> map, last_used |-> rr.last_used,
              strategy |-> "none", ret |-> None]

\* Lines 1709-1728 of get_available_querier: round-robin first, then the
\* least-recently-used fallback, then NoAvailableQuerier.
SelectAndDispatch(map, last_used, now) ==
    LET rr == select_next_querier(map, last_used)
        lru == select_least_recently_used_querier(map)
    IN  IF rr.selected # None
        THEN [map |-> Dispatched(map, TheOne(rr.selected), now),
              last_used |-> rr.last_used,
              strategy |-> "round_robin",
              ret |-> Some(Entry(map, TheOne(rr.selected)).metadata)]
        ELSE IF lru # None
        THEN [map |-> Dispatched(map, TheOne(lru), now),
              last_used |-> rr.last_used,
              strategy |-> "lru",
              ret |-> Some(Entry(map, TheOne(lru)).metadata)]
        ELSE [map |-> map, last_used |-> rr.last_used,
              strategy |-> "none", ret |-> None]

\* mark_querier_available that also resets last_used.
mark_querier_available_ResetLastUsed(map, d) ==
    [i \in 1..Len(map) |->
        IF map[i].domain = d
        THEN [map[i] EXCEPT !.available = TRUE, !.last_used = None]
        ELSE map[i]]

\* mark_querier_available without line 1825.
mark_querier_available_Noop(map, d) == map

\* The body of mark_querier_available under the write lock.
mark_querier_available(map, d) ==
    [i \in 1..Len(map) |->
        IF map[i].domain = d THEN [map[i] EXCEPT !.available = TRUE] ELSE map[i]]

\* ------------------------------------------------------ send_query_request
\* The dispatcher at process start: lazy_static QUERIER_MAP and
\* LAST_USED_QUERIER (lines 66-70), no query started.
InitDispatcher ==
    /\ QUERIER_MAP = <<>>
    /\ LAST_USED_QUERIER = None
    /\ map_lock = None
    /\ clock = 0
    /\ pc = [q \in Queries |-> "start"]
    /\ querier_metadata = [q \in Queries |-> {}]
    /\ querier = [q \in Queries |-> None]
    /\ last_cycle = None
    /\ returned = None

\* The variables of a scenario that is not running.
IdleQueries ==
    /\ map_lock = None
    /\ pc = [q \in Queries |-> "done"]
    /\ querier_metadata = [q \in Queries |-> {}]
    /\ querier = [q \in Queries |-> None]
    /\ last_cycle = None
    /\ returned = None

IdleRoundRobin == cycle_live = {} /\ selected = <<>> /\ holding = None

IdleSelect == select_in = None /\ select_out = None

IdleFanout ==
    /\ ingestor_infos = None
    /\ probed = 0
    /\ fan_probes = <<>>
    /\ live_ingestors = <<>>
    /\ results = <<>>
    /\ received = {}
    /\ fan_pc = "idle"
    /\ fan_result = None

IdleSync == operation = None

IdlePeer ==
    /\ peer_fn = "none"
    /\ peer_ingestor = 0
    /\ peer_pc = "idle"
    /\ peer_response = None
    /\ peer_result = None

IdleScheduler ==
    /\ sched_pc = "idle"
    /\ wait = 0
    /\ tick = 0
    /\ job_pc = <<>>
    /\ job_log = <<>>
    /\ prev_failed = FALSE

IdleCollect ==
    /\ collect_pass = "none"
    /\ collect_pc = "idle"
    /\ node_role = <<>>
    /\ metadata_result = <<>>
    /\ scrape = <<>>
    /\ collect_result = None

IdleBilling ==
    /\ bill_samples = <<>>
    /\ bill_node = None
    /\ bill_events = None
    /\ bill_first = None
    /\ utc_now = 0

IdleClusterInfo ==
    /\ info_pc = "idle"
    /\ info_node_role = <<>>
    /\ info_metadata_result = <<>>
    /\ about = <<>>
    /\ info_result = None

IdleRemove ==
    /\ rm_pc = "idle"
    /\ rm_target = 0
    /\ rm_live = None
    /\ rm_calls = <<>>
    /\ rm_result = None

IdleDemo ==
    /\ demo_pc = "idle"
    /\ demo_infos = None
    /\ demo_probes = <<>>
    /\ demo_requests = <<>>
    /\ demo_result = None

IdleFlatten == flat_objects = <<>> /\ flat_out = None

IdleLocks ==
    /\ lk_kind = <<>>
    /\ lk_pc = <<>>
    /\ lk_map = None
    /\ lk_ptr_readers = {}
    /\ lk_ptr_writer = None

IdleAdmin == IdleClusterInfo /\ IdleRemove /\ IdleDemo /\ IdleFlatten /\ IdleLocks

IdleOther ==
    IdleSync /\ IdlePeer /\ IdleScheduler /\ IdleCollect /\ IdleBilling /\ IdleAdmin

Init == InitDispatcher /\ IdleRoundRobin /\ IdleSelect /\ IdleFanout /\ IdleOther

\* send_query_request of query q returns to its caller: its locals go out of
\* scope, and `returned` shows the call until the next step: the value
\* returned, the querier it had acquired, the outcome of the request and of
\* reading the body, how many times the call ran mark_querier_available and,
\* when get_available_querier failed, what the metastore reported and which
\* of the reported queriers were live.
Return(q, call) ==
    /\ pc' = [pc EXCEPT ![q] = "done"]
    /\ querier_metadata' = [querier_metadata EXCEPT ![q] = {}]
    /\ querier' = [querier EXCEPT ![q] = None]
    /\ returned' = Some(call)

NotAcquired(value, reported, live) ==
    [result |-> value, querier |-> None, resp |-> "", body |-> "", marks |-> 0,
     reported |-> reported, live |-> live]

\* get_available_querier_fetch without the early return of lines 1649-1651:
\* with no querier reported the refresh runs, prunes every entry, and the
\* selection finds nothing.
get_available_querier_fetch_RefreshOnEmpty(q) ==
    /\ pc[q] = "start"
    /\ \/ /\ Return(q, NotAcquired("MetastoreError", None, None))
          /\ UNCHANGED <<QUERIER_MAP, LAST_USED_QUERIER, map_lock, clock, last_cycle>>
       \/ /\ Return(q, NotAcquired("NoAvailableQuerier", Some({}), None))
          /\ QUERIER_MAP' = <<>>
          /\ UNCHANGED <<LAST_USED_QUERIER, map_lock, clock, last_cycle>>
       \/ \E reported \in (SUBSET Domains) \ {{}} :
            /\ querier_metadata' = [querier_metadata EXCEPT ![q] = reported]
            /\ pc' = [pc EXCEPT ![q] = "lock"]
            /\ returned' = None
            /\ UNCHANGED <<QUERIER_MAP, LAST_USED_QUERIER, map_lock, clock,
                           querier, last_cycle>>
    /\ UNCHANGED <<rrVars, selVars, fanVars, otherVars>>

\* Lines 1646-1651: get_node_info(Querier) fails, reports nothing, or reports
\* some queriers.
get_available_querier_fetch(q) ==
    /\ pc[q] = "start"
    /\ \/ /\ Return(q, NotAcquired("MetastoreError", None, None))
          /\ UNCHANGED <<QUERIER_MAP, LAST_USED_QUERIER, map_lock, clock, last_cycle>>
       \/ /\ Return(q, NotAcquired("NoAvailableQuerier", Some({}), None))
          /\ UNCHANGED <<QUERIER_MAP, LAST_USED_QUERIER, map_lock, clock, last_cycle>>
       \/ \E reported \in (SUBSET Domains) \ {{}} :
            /\ querier_metadata' = [querier_metadata EXCEPT ![q] = reported]
            /\ pc' = [pc EXCEPT ![q] = "lock"]
            /\ returned' = None
            /\ UNCHANGED <<QUERIER_MAP, LAST_USED_QUERIER, map_lock, clock,
                           querier, last_cycle>>
    /\ UNCHANGED <<rrVars, selVars, fanVars, otherVars>>

\* Line 1658: QUERIER_MAP.write().await is granted; the liveness probes of
\* lines 1664-1678 are then awaited with the guard held.
get_available_querier_lock(q) ==
    /\ pc[q] = "lock"
    /\ map_lock = None
    /\ map_lock' = Some(q)
    /\ pc' = [pc EXCEPT ![q] = "probing"]
    /\ returned' = None
    /\ UNCHANGED <<QUERIER_MAP, LAST_USED_QUERIER, clock, querier_metadata,
                   querier, last_cycle>>
    /\ UNCHANGED <<rrVars, selVars, fanVars, otherVars>>

\* Lines 1678-1729: the probes complete with some subset of the reported
\* queriers live; the map is refreshed, a querier is selected and dispatched,
\* and the guard is dropped on return.
get_available_querier_select(q) ==
    /\ pc[q] = "probing"
    /\ map_lock = Some(q)
    /\ \E live \in SUBSET querier_metadata[q] :
       \E order \in InsertOrders(QUERIER_MAP, live) :
         LET refreshed == RefreshMap(QUERIER_MAP, live, order)
             sel == SelectAndDispatch(refreshed, LAST_USED_QUERIER, clock + 1)
         IN  /\ QUERIER_MAP' = sel.map
             /\ LAST_USED_QUERIER' = sel.last_used
             /\ last_cycle' = Some([live |-> live, ret |-> sel.ret])
             /\ IF sel.ret = None
                THEN /\ Return(q, NotAcquired("NoAvailableQuerier",
                                              Some(querier_metadata[q]), Some(live)))
                     /\ UNCHANGED clock
                ELSE /\ pc' = [pc EXCEPT ![q] = "request"]
                     /\ querier_metadata' = [querier_metadata EXCEPT ![q] = {}]
                     /\ querier' = [querier EXCEPT ![q] = sel.ret]
                     /\ clock' = clock + 1
                     /\ returned' = None
    /\ map_lock' = None
    /\ UNCHANGED <<rrVars, selVars, fanVars, otherVars>>

\* AfterRequest without the mark of line 1862 (transport error).
AfterRequest_NoMarkOnTransportError(outcome, read) ==
    CASE outcome = "not_serialized" -> [marks |-> 1, result |-> "Serde", body |-> ""]
      [] outcome = "transport_error" -> [marks |-> 0, result |-> "Network", body |-> ""]
      [] outcome = "success" ->
            [marks |-> 1, body |-> read,
             result |-> CASE read = "json" -> "Ok"
                          [] read = "not_json" -> "Serde"
                          [] OTHER -> "Anyhow"]
      [] OTHER ->
            [marks |-> 1, body |-> read,
             result |-> IF read = "unreadable" THEN "Network" ELSE "JsonParse"]

\* AfterRequest without the mark of line 1846 (serialization failure).
AfterRequest_NoMarkOnSerdeError(outcome, read) ==
    CASE outcome = "not_serialized" -> [marks |-> 0, result |-> "Serde", body |-> ""]
      [] outcome = "transport_error" -> [marks |-> 1, result |-> "Network", body |-> ""]
      [] outcome = "success" ->
            [marks |-> 1, body |-> read,
             result |-> CASE read = "json" -> "Ok"
                          [] read = "not_json" -> "Serde"
                          [] OTHER -> "Anyhow"]
      [] OTHER ->
            [marks |-> 1, body |-> read,
             result |-> IF read = "unreadable" THEN "Network" ELSE "JsonParse"]

\* What send_query_request does from the end of the request on, on each path:
\* the number of mark_querier_available calls and the value returned.
\* Lines 1845-1848 (serialization), 1861-1864 (transport), 1868-1893
\* (response: res.text().await and, on 2xx, serde_json::from_str).
AfterRequest(outcome, read) ==
    CASE outcome = "not_serialized" -> [marks |-> 1, result |-> "Serde", body |-> ""]
      [] outcome = "transport_error" -> [marks |-> 1, result |-> "Network", body |-> ""]
      [] outcome = "success" ->
            [marks |-> 1, body |-> read,
             result |-> CASE read = "json" -> "Ok"
                          [] read = "not_json" -> "Serde"
                          [] OTHER -> "Anyhow"]
      [] OTHER ->
            [marks |-> 1, body |-> read,
             result |-> IF read = "unreadable" THEN "Network" ELSE "JsonParse"]

\* Lines 1843-1893: the request of q ends (serde_json::to_string fails, or
\* the POST, which has a 300 s timeout, ends with a transport error or a
\* response), mark_querier_available(domain_name) is granted the write lock
\* and runs, and the call returns; on the response path the body is read
\* after the mark.  The steps before the mark touch only locals of q, so they
\* are taken together with it.
send_query_request_release(q) ==
    /\ pc[q] = "request"
    /\ map_lock = None
    /\ \E outcome \in {"not_serialized", "transport_error", "success", "non_success"} :
       \E read \in {"unreadable", "json", "not_json"} :
         LET tail == AfterRequest(outcome, read)
         IN  /\ QUERIER_MAP' =
                    IF tail.marks > 0
                    THEN mark_querier_available(QUERIER_MAP,
                                                TheOne(querier[q]).domain_name)
                    ELSE QUERIER_MAP
             /\ Return(q, [result |-> tail.result, querier |-> querier[q],
                           resp |-> outcome, body |-> tail.body,
                           marks |-> tail.marks, reported |-> None, live |-> None])
    /\ UNCHANGED <<LAST_USED_QUERIER, map_lock, clock, last_cycle>>
    /\ UNCHANGED <<rrVars, selVars, fanVars, otherVars>>

Next ==
    \E q \in Queries :
        \/ get_available_querier_fetch(q)
        \/ get_available_querier_lock(q)
        \/ get_available_querier_select(q)
        \/ send_query_request_release(q)

Spec == Init /\ [][Next]_vars

\* tokio's RwLock grants the write lock in FIFO order, the probes and the
\* POST (300 s timeout) end, and the runtime schedules every ready task.
FairSpec ==
    /\ Spec
    /\ \A q \in Queries :
        /\ WF_vars(get_available_querier_fetch(q))
        /\ SF_vars(get_available_querier_lock(q))
        /\ WF_vars(get_available_querier_select(q))
        /\ SF_vars(send_query_request_release(q))

\* ------------------------------------------- sequential acquire and release
\* A registry as the dispatcher leaves it when no query is in flight: any
\* registered domains in any iteration order, every entry available.
IdleRegistries ==
    UNION {{[i \in 1..Len(order) |-> QuerierStatus(order[i], TRUE, None)] :
               order \in Perms(keys)} : keys \in SUBSET Domains}

\* One caller runs get_available_querier and mark_querier_available in
\* turn, with no other acquire in between, while the same non-empty set of
\* queriers is registered and live.
InitRoundRobin ==
    /\ QUERIER_MAP \in IdleRegistries
    /\ LAST_USED_QUERIER \in {None} \cup {Some(d) : d \in Domains}
    /\ clock = 0
    /\ IdleQueries
    /\ cycle_live \in (SUBSET Domains) \ {{}}
    /\ selected = <<>>
    /\ holding = None
    /\ IdleSelect /\ IdleFanout /\ IdleOther

\* get_available_querier (lines 1644-1729) with the live set cycle_live.
get_available_querier ==
    /\ holding = None
    /\ Len(selected) < MaxCycles
    /\ \E order \in InsertOrders(QUERIER_MAP, cycle_live) :
         LET refreshed == RefreshMap(QUERIER_MAP, cycle_live, order)
             sel == SelectAndDispatch(refreshed, LAST_USED_QUERIER, clock + 1)
         IN  /\ QUERIER_MAP' = sel.map
             /\ LAST_USED_QUERIER' = sel.last_used
             /\ selected' = Append(selected, TheOne(sel.ret).domain_name)
             /\ holding' = Some(TheOne(sel.ret).domain_name)
    /\ clock' = clock + 1
    /\ UNCHANGED <<map_lock, pc, querier_metadata, querier, last_cycle, returned,
                   cycle_live>>
    /\ UNCHANGED <<selVars, fanVars, otherVars>>

\* mark_querier_available (lines 1822-1828) of the domain just returned.
mark_returned_querier_available ==
    /\ holding # None
    /\ QUERIER_MAP' = mark_querier_available(QUERIER_MAP, TheOne(holding))
    /\ holding' = None
    /\ UNCHANGED <<LAST_USED_QUERIER, map_lock, clock, pc, querier_metadata,
                   querier, last_cycle, returned, cycle_live, selected>>
    /\ UNCHANGED <<selVars, fanVars, otherVars>>

NextRoundRobin == get_available_querier \/ mark_returned_querier_available

SpecRoundRobin == InitRoundRobin /\ [][NextRoundRobin]_vars

\* -------------------------------------------- acquires over changing live sets
\* Number of get_available_querier calls in a row.
MaxRefreshes == 3

\* The dispatcher at process start; get_available_querier is then called
\* MaxRefreshes times, each call with its own outcome of the liveness
\* probes, and queriers are released in between or not.
InitRefresh ==
    /\ QUERIER_MAP = <<>>
    /\ LAST_USED_QUERIER = None
    /\ clock = 0
    /\ IdleQueries
    /\ cycle_live = {}
    /\ selected = <<>>
    /\ holding = None
    /\ IdleSelect /\ IdleFanout /\ IdleOther

\* get_available_querier (lines 1658-1729) with any live set; `selected`
\* gets the domain returned, 0 for NoAvailableQuerier.
refresh_and_select ==
    /\ Len(selected) < MaxRefreshes
    /\ \E live \in SUBSET Domains :
       \E order \in InsertOrders(QUERIER_MAP, live) :
         LET refreshed == RefreshMap(QUERIER_MAP, live, order)
             sel == SelectAndDispatch(refreshed, LAST_USED_QUERIER, clock + 1)
         IN  /\ QUERIER_MAP' = sel.map
             /\ LAST_USED_QUERIER' = sel.last_used
             /\ cycle_live' = live
             /\ selected' = Append(selected, IF sel.ret = None THEN 0
                                             ELSE TheOne(sel.ret).domain_name)
    /\ clock' = clock + 1
    /\ UNCHANGED <<map_lock, pc, querier_metadata, querier, last_cycle, returned, holding>>
    /\ UNCHANGED <<selVars, fanVars, otherVars>>

\* mark_querier_available (lines 1822-1828) of a querier that is out.
release_querier ==
    /\ \E i \in 1..Len(QUERIER_MAP) :
         /\ ~QUERIER_MAP[i].available
         /\ QUERIER_MAP' = mark_querier_available(QUERIER_MAP, QUERIER_MAP[i].domain)
    /\ UNCHANGED <<LAST_USED_QUERIER, map_lock, clock, pc, querier_metadata,
                   querier, last_cycle, returned, cycle_live, selected, holding>>
    /\ UNCHANGED <<selVars, fanVars, otherVars>>

NextRefresh == refresh_and_select \/ release_querier

SpecRefresh == InitRefresh /\ [][NextRefresh]_vars

\* ------------------------------------------------- the selection step alone
\* Any registry of the QuerierStatus type, with any pointer.
Registries ==
    UNION {UNION {
        {[i \in 1..Len(order) |->
             QuerierStatus(order[i], flags[order[i]], used[order[i]])] :
            flags \in [keys -> BOOLEAN],
            used \in [keys -> {None} \cup {Some(t) : t \in 1..MaxInstant}]} :
        order \in Perms(keys)} : keys \in SUBSET Domains}

InitSelect ==
    /\ QUERIER_MAP \in Registries
    /\ LAST_USED_QUERIER \in {None} \cup {Some(d) : d \in Domains}
    /\ clock = MaxInstant
    /\ IdleQueries
    /\ IdleRoundRobin
    /\ select_in = None
    /\ select_out = None
    /\ IdleFanout /\ IdleOther

\* Lines 1709-1728 of get_available_querier on the registry as given.
select_and_dispatch ==
    /\ select_out = None
    /\ LET sel == SelectAndDispatch(QUERIER_MAP, LAST_USED_QUERIER, clock + 1)
       IN  /\ QUERIER_MAP' = sel.map
           /\ LAST_USED_QUERIER' = sel.last_used
           /\ select_in' = Some([map |-> QUERIER_MAP, last_used |-> LAST_USED_QUERIER])
           /\ select_out' = Some([strategy |-> sel.strategy, ret |-> sel.ret])
    /\ clock' = clock + 1
    /\ UNCHANGED <<map_lock, pc, querier_metadata, querier, last_cycle, returned>>
    /\ UNCHANGED <<rrVars, fanVars, otherVars>>

NextSelect == select_and_dispatch

SpecSelect == InitSelect /\ [][NextSelect]_vars

\* --------------------------------------------------- for_each_live_ingestor
\* Results of the per-peer action and of the fan-out: Ok(()) or an error
\* with its kind and the peer it comes from (0: no peer).
Ok == [kind |-> "Ok", peer |-> 0]
Err(kind, peer) == [kind |-> kind, peer |-> peer]

\* What get_node_info(Ingestor) may report: any registered ingestors, in any
\* order.
IngestorLists == UNION {Perms(set) : set \in SUBSET Ingestors}

InitFanout ==
    /\ QUERIER_MAP = <<>>
    /\ LAST_USED_QUERIER = None
    /\ clock = 0
    /\ IdleQueries
    /\ IdleRoundRobin
    /\ IdleSelect
    /\ ingestor_infos = None
    /\ probed = 0
    /\ fan_probes = <<>>
    /\ live_ingestors = <<>>
    /\ results = <<>>
    /\ received = {}
    /\ fan_pc = "start"
    /\ fan_result = None
    /\ IdleOther

\* Lines 289-293: get_node_info(Ingestor) fails, and the error is returned,
\* or it reports the ingestors.
for_each_live_ingestor_get_node_info ==
    /\ fan_pc = "start"
    /\ \/ /\ fan_result' = Some(Err("Metastore", 0))
          /\ fan_pc' = "done"
          /\ UNCHANGED ingestor_infos
       \/ \E infos \in IngestorLists :
            /\ ingestor_infos' = Some(infos)
            /\ fan_pc' = "probing"
            /\ UNCHANGED fan_result
    /\ UNCHANGED <<probed, fan_probes, live_ingestors, results, received>>
    /\ UNCHANGED <<dispVars, rrVars, selVars, otherVars>>

\* Lines 297-301 with the ingestor pushed whatever the probe answered.
push_if_live_Always(live, ingestor, is_live) == Append(live, ingestor)

\* Lines 297-301: an ingestor whose probe succeeded is pushed to
\* live_ingestors; one whose probe failed is logged and left out.
push_if_live(live, ingestor, is_live) ==
    IF is_live THEN Append(live, ingestor) ELSE live

\* Lines 296-302: check_liveness of the next ingestor, one after the other.
for_each_live_ingestor_check_liveness ==
    /\ fan_pc = "probing"
    /\ probed < Len(TheOne(ingestor_infos))
    /\ \E is_live \in BOOLEAN :
         /\ live_ingestors' =
               push_if_live(live_ingestors, TheOne(ingestor_infos)[probed + 1], is_live)
         /\ fan_probes' = Append(fan_probes,
                                 [peer |-> TheOne(ingestor_infos)[probed + 1],
                                  live |-> is_live])
    /\ probed' = probed + 1
    /\ UNCHANGED <<ingestor_infos, results, received, fan_pc, fan_result>>
    /\ UNCHANGED <<dispVars, rrVars, selVars, otherVars>>

\* Lines 305-308: every ingestor is probed; join_all gets one future per live
\* ingestor.
for_each_live_ingestor_join_all ==
    /\ fan_pc = "probing"
    /\ probed = Len(TheOne(ingestor_infos))
    /\ results' = [i \in 1..Len(live_ingestors) |-> None]
    /\ fan_pc' = "running"
    /\ UNCHANGED <<ingestor_infos, probed, fan_probes, live_ingestors, received, fan_result>>
    /\ UNCHANGED <<dispVars, rrVars, selVars, otherVars>>

\* The action of sync_users_with_roles_with_ingestors (lines 461-486) for one
\* peer: a transport error is returned as RBACError::Network, a non-2xx
\* response is logged, and every response is Ok(()).
sync_action(peer, outcome) ==
    IF outcome = "transport_error" THEN Err("Network", peer) ELSE Ok

\* Line 307: the future of the i-th live ingestor runs to its end, in any
\* order with the others; a peer that answers has received the request.
api_fn(i) ==
    /\ fan_pc = "running"
    /\ i \in 1..Len(results)
    /\ results[i] = None
    /\ \E outcome \in {"transport_error", "success", "non_success"} :
         /\ results' = [results EXCEPT
                           ![i] = Some(sync_action(live_ingestors[i], outcome))]
         /\ received' = IF outcome = "transport_error"
                        THEN received
                        ELSE received \cup {live_ingestors[i]}
    /\ UNCHANGED <<ingestor_infos, probed, fan_probes, live_ingestors, fan_pc, fan_result>>
    /\ UNCHANGED <<dispVars, rrVars, selVars, otherVars>>

Failed(res) == {i \in 1..Len(res) : TheOne(res[i]).kind # "Ok"}

Min(set) == CHOOSE i \in set : \A j \in set : i <= j
Max(set) == CHOOSE i \in set : \A j \in set : i >= j

\* The loop of lines 312-316 with the last error kept instead of the first.
collect_results_LastError(res) ==
    IF Failed(res) = {} THEN Ok ELSE TheOne(res[Max(Failed(res))])

\* Lines 312-316: `result?` on each result in the order of the live
\* ingestors, then Ok(()).
collect_results(res) ==
    IF Failed(res) = {} THEN Ok ELSE TheOne(res[Min(Failed(res))])

\* The return as try_join_all would make it: on the first error, with
\* other futures still pending.
for_each_live_ingestor_return_ShortCircuit ==
    /\ fan_pc = "running"
    /\ \/ \A i \in 1..Len(results) : results[i] # None
       \/ \E i \in 1..Len(results) : results[i] # None /\ TheOne(results[i]).kind # "Ok"
    /\ fan_result' = Some(collect_results(
            SelectSeq(results, LAMBDA r : r # None)))
    /\ fan_pc' = "done"
    /\ UNCHANGED <<ingestor_infos, probed, fan_probes, live_ingestors, results, received>>
    /\ UNCHANGED <<dispVars, rrVars, selVars, otherVars>>

\* Lines 309-316: join_all is ready when every future has ended; the results
\* are then collected and the call returns.
for_each_live_ingestor_return ==
    /\ fan_pc = "running"
    /\ \A i \in 1..Len(results) : results[i] # None
    /\ fan_result' = Some(collect_results(results))
    /\ fan_pc' = "done"
    /\ UNCHANGED <<ingestor_infos, probed, fan_probes, live_ingestors, results, received>>
    /\ UNCHANGED <<dispVars, rrVars, selVars, otherVars>>

NextFanout ==
    \/ for_each_live_ingestor_get_node_info
    \/ for_each_live_ingestor_check_liveness
    \/ for_each_live_ingestor_join_all
    \/ \E i \in 1..NumIngestors : api_fn(i)
    \/ for_each_live_ingestor_return

SpecFanout == InitFanout /\ [][NextFanout]_vars

\* ------------------------------------------------------- per-peer requests
\* The functions that send one request to one ingestor: the closures that
\* the sync broadcasts hand to for_each_live_ingestor, and the two requests
\* sent per ingestor by their callers.
SyncBroadcasts ==
    {"sync_streams_with_ingestors", "sync_users_with_roles_with_ingestors",
     "sync_user_deletion_with_ingestors", "sync_user_creation_with_ingestors",
     "sync_password_reset_with_ingestors", "sync_role_update_with_ingestors"}

PeerFunctions ==
    SyncBroadcasts \cup {"send_stream_delete_request",
                         "send_retention_cleanup_request"}

\* What send().await can give: no response, a 2xx one, another one.
Outcomes == {"transport_error", "success", "non_success"}

\* The closure of sync_streams_with_ingestors with `?` on every non-2xx
\* response.
sync_streams_action_FailOnNonSuccess(p, outcome) ==
    CASE outcome = "transport_error" -> Err("Network", p)
      [] outcome = "non_success" -> Err("Network", p)
      [] OTHER -> Ok

\* sync_streams_with_ingestors, lines 345-369: StreamError::Network on a
\* transport error; a non-2xx response is logged; Ok(()).
sync_streams_action(p, outcome) ==
    IF outcome = "transport_error" THEN Err("Network", p) ELSE Ok

\* sync_user_deletion_with_ingestors, lines 503-526.
sync_user_deletion_action(p, outcome) ==
    IF outcome = "transport_error" THEN Err("Network", p) ELSE Ok

\* sync_user_creation_with_ingestors, lines 560-585.
sync_user_creation_action(p, outcome) ==
    IF outcome = "transport_error" THEN Err("Network", p) ELSE Ok

\* sync_password_reset_with_ingestors, lines 602-626.
sync_password_reset_action(p, outcome) ==
    IF outcome = "transport_error" THEN Err("Network", p) ELSE Ok

\* sync_role_update_with_ingestors, lines 646-671: RoleError::Network.
sync_role_update_action(p, outcome) ==
    IF outcome = "transport_error" THEN Err("Network", p) ELSE Ok

\* send_stream_delete_request, lines 767-792, for an ingestor found live:
\* StreamError::Network on a transport error; a non-2xx response is logged.
send_stream_delete_request(p, outcome) ==
    IF outcome = "transport_error" THEN Err("Network", p) ELSE Ok

\* send_retention_cleanup_request, lines 801-831:
\* ObjectStorageError::Custom on a transport error and on a non-2xx response.
send_retention_cleanup_request(p, outcome) ==
    CASE outcome = "transport_error" -> Err("Custom", p)
      [] outcome = "non_success" -> Err("Custom", p)
      [] OTHER -> Ok

\* The value the function fn returns for ingestor p after send().await gave
\* `outcome`.
peer_action(fn, p, outcome) ==
    CASE fn = "sync_streams_with_ingestors" -> sync_streams_action(p, outcome)
      [] fn = "sync_users_with_roles_with_ingestors" -> sync_action(p, outcome)
      [] fn = "sync_user_deletion_with_ingestors" ->
             sync_user_deletion_action(p, outcome)
      [] fn = "sync_user_creation_with_ingestors" ->
             sync_user_creation_action(p, outcome)
      [] fn = "sync_password_reset_with_ingestors" ->
             sync_password_reset_action(p, outcome)
      [] fn = "sync_role_update_with_ingestors" ->
             sync_role_update_action(p, outcome)
      [] fn = "send_stream_delete_request" ->
             send_stream_delete_request(p, outcome)
      [] fn = "send_retention_cleanup_request" ->
             send_retention_cleanup_request(p, outcome)

\* One of the functions is called for one ingestor.
InitPeer ==
    /\ QUERIER_MAP = <<>>
    /\ LAST_USED_QUERIER = None
    /\ clock = 0
    /\ IdleQueries /\ IdleRoundRobin /\ IdleSelect /\ IdleFanout
    /\ IdleSync /\ IdleScheduler /\ IdleCollect /\ IdleBilling /\ IdleAdmin
    /\ peer_fn \in PeerFunctions
    /\ peer_ingestor \in Ingestors
    /\ peer_pc = IF peer_fn = "send_stream_delete_request"
                 THEN "check_liveness" ELSE "send"
    /\ peer_response = None
    /\ peer_result = None

\* send_stream_delete_request, lines 764-766: an ingestor that is not live
\* gets no request, and the function returns Ok(()).
send_stream_delete_request_check_liveness ==
    /\ peer_pc = "check_liveness"
    /\ \E is_live \in BOOLEAN :
         IF is_live
         THEN peer_pc' = "send" /\ UNCHANGED peer_result
         ELSE peer_pc' = "done" /\ peer_result' = Some(Ok)
    /\ UNCHANGED <<peer_fn, peer_ingestor, peer_response>>
    /\ UNCHANGED <<clusterVars, syncVars, schedVars, collectVars, billVars, adminVars>>

\* send().await ends: map_err(..)? returns on a transport error, otherwise
\* the response is at hand.
peer_send ==
    /\ peer_pc = "send"
    /\ \E outcome \in Outcomes :
         /\ peer_response' = Some(outcome)
         /\ IF outcome = "transport_error"
            THEN /\ peer_result' =
                        Some(peer_action(peer_fn, peer_ingestor, outcome))
                 /\ peer_pc' = "done"
            ELSE /\ peer_pc' = "status"
                 /\ UNCHANGED peer_result
    /\ UNCHANGED <<peer_fn, peer_ingestor>>
    /\ UNCHANGED <<clusterVars, syncVars, schedVars, collectVars, billVars, adminVars>>

\* The status of the response is looked at, the body of a non-2xx response
\* is read for the log, and the function returns.
peer_status ==
    /\ peer_pc = "status"
    /\ peer_result' =
           Some(peer_action(peer_fn, peer_ingestor, TheOne(peer_response)))
    /\ peer_pc' = "done"
    /\ UNCHANGED <<peer_fn, peer_ingestor, peer_response>>
    /\ UNCHANGED <<clusterVars, syncVars, schedVars, collectVars, billVars, adminVars>>

NextPeer ==
    \/ send_stream_delete_request_check_liveness
    \/ peer_send
    \/ peer_status

SpecPeer == InitPeer /\ [][NextPeer]_vars

\* --------------------------------------- sync_users_with_roles_with_ingestors
\* Values of the `operation` argument.
Operations == {"add", "remove", "update", ""}

\* The match of lines 436-439 with every operation let through.
valid_operation_Any(op) == TRUE

\* Lines 436-439: `"add" | "remove" => {}`, anything else returns.
valid_operation(op) == op \in {"add", "remove"}

\* sync_users_with_roles_with_ingestors is called with some operation.
InitRoleSync ==
    /\ QUERIER_MAP = <<>>
    /\ LAST_USED_QUERIER = None
    /\ clock = 0
    /\ IdleQueries /\ IdleRoundRobin /\ IdleSelect
    /\ ingestor_infos = None
    /\ probed = 0
    /\ fan_probes = <<>>
    /\ live_ingestors = <<>>
    /\ results = <<>>
    /\ received = {}
    /\ fan_pc = "validate"
    /\ fan_result = None
    /\ operation \in {Some(op) : op \in Operations}
    /\ IdlePeer /\ IdleScheduler /\ IdleCollect /\ IdleBilling /\ IdleAdmin

\* Lines 436-439: the operation is matched before anything else is done.
sync_users_with_roles_with_ingestors_validate ==
    /\ fan_pc = "validate"
    /\ IF valid_operation(TheOne(operation))
       THEN fan_pc' = "to_vec" /\ UNCHANGED fan_result
       ELSE /\ fan_result' = Some(Err("InvalidSyncOperation", 0))
            /\ fan_pc' = "done"
    /\ UNCHANGED <<ingestor_infos, probed, fan_probes, live_ingestors, results, received>>
    /\ UNCHANGED <<dispVars, rrVars, selVars, otherVars>>

\* Lines 441-450: the roles are serialized (RBACError::SerdeError if that
\* fails) and for_each_live_ingestor is called with the closure.
sync_users_with_roles_with_ingestors_to_vec ==
    /\ fan_pc = "to_vec"
    /\ \/ fan_pc' = "start" /\ UNCHANGED fan_result
       \/ fan_result' = Some(Err("SerdeError", 0)) /\ fan_pc' = "done"
    /\ UNCHANGED <<ingestor_infos, probed, fan_probes, live_ingestors, results, received>>
    /\ UNCHANGED <<dispVars, rrVars, selVars, otherVars>>

NextRoleSync ==
    \/ sync_users_with_roles_with_ingestors_validate
    \/ sync_users_with_roles_with_ingestors_to_vec
    \/ for_each_live_ingestor_get_node_info
    \/ for_each_live_ingestor_check_liveness
    \/ for_each_live_ingestor_join_all
    \/ \E i \in 1..NumIngestors : api_fn(i)
    \/ for_each_live_ingestor_return

SpecRoleSync == InitRoleSync /\ [][NextRoleSync]_vars

\* ------------------------------------------- init_cluster_metrics_schedular
\* Ticks the model follows.
MaxTicks == 3

\* CLUSTER_METRICS_INTERVAL_SECONDS (line 64): one minute.
IntervalSeconds == 60

\* The sleep of the polling loop (line 1630).
SleepSeconds == 10

Ticks == 1..MaxTicks

\* Remaining times until the job is due, as seen at the polls.
Waits == {w \in 0..IntervalSeconds : w % SleepSeconds = 0}

\* Outcomes of a collection followed by serde_json::to_vec of its result.
FetchOutcomes == {"error", "empty", "not_serialized", "serialized"}

\* Outcomes of ingest_internal_stream.
IngestOutcomes == {"ok", "error"}

LogEntry(k, step, outcome) == [tick |-> k, step |-> step, outcome |-> outcome]

HasFailure(log) ==
    \E i \in 1..Len(log) : log[i].outcome \in {"error", "not_serialized"}

\* The metrics step with `?` on the result of fetch_cluster_metrics: the
\* closure returns.
after_fetch_cluster_metrics_ReturnOnError(outcome) ==
    CASE outcome = "serialized" -> "ingest_pmeta"
      [] outcome = "error" -> "done"
      [] OTHER -> "fetch_cluster_billing_metrics"

\* Lines 1564-1585: only metrics that are Ok, non-empty and serialized go
\* to ingest_internal_stream; in every other case the failure is logged, or
\* nothing is, and the closure goes on to the billing step.
after_fetch_cluster_metrics(outcome) ==
    IF outcome = "serialized"
    THEN "ingest_pmeta"
    ELSE "fetch_cluster_billing_metrics"

\* The "pmeta" ingestion with unwrap() on its result: the job panics.
after_ingest_pmeta_Unwrap(outcome) ==
    IF outcome = "error" THEN "panicked" ELSE "fetch_cluster_billing_metrics"

\* Lines 1570-1581: matches!(.., Ok(())) logs either way.
after_ingest_pmeta(outcome) == "fetch_cluster_billing_metrics"

\* The billing step without the guard `if !metrics.is_empty()` of line 1589.
after_fetch_cluster_billing_metrics_IngestEmpty(outcome) ==
    IF outcome \in {"serialized", "empty"} THEN "ingest_pbilling" ELSE "done"

\* Lines 1588-1616: billing metrics that are Ok, non-empty and serialized go
\* to ingest_internal_stream; otherwise the closure is at its end.
after_fetch_cluster_billing_metrics(outcome) ==
    IF outcome = "serialized" THEN "ingest_pbilling" ELSE "done"

\* Lines 1593-1604, 1618-1624: logged either way; the closure returns.
after_ingest_pbilling(outcome) == "done"

\* The job spawned and not awaited.
job_completed_NoAwait(pcs, k) == TRUE

\* Line 1629: run_pending().await returns when the future of the job it
\* started has ended (a panic of the job ends it too).
job_completed(pcs, k) == pcs[k] \in {"done", "panicked"}

\* Lines 1627-1632: after run_pending().await the task sleeps and loops; a
\* job that panicked unwinds the task.
after_job(pos) == IF pos = "panicked" THEN "terminated" ELSE "sleep"

\* init_cluster_metrics_schedular has returned: the job is registered to
\* run every minute and the polling task is spawned.
InitScheduler ==
    /\ QUERIER_MAP = <<>>
    /\ LAST_USED_QUERIER = None
    /\ clock = 0
    /\ IdleQueries /\ IdleRoundRobin /\ IdleSelect /\ IdleFanout
    /\ IdleSync /\ IdlePeer /\ IdleCollect /\ IdleBilling /\ IdleAdmin
    /\ sched_pc = "run_pending"
    /\ wait = IntervalSeconds
    /\ tick = 0
    /\ job_pc = [k \in Ticks |-> "idle"]
    /\ job_log = <<>>
    /\ prev_failed = FALSE

\* Line 1629: run_pending finds the job due and starts it; its next run is
\* one interval later.
run_pending_start ==
    /\ sched_pc = "run_pending"
    /\ wait = 0
    /\ tick < MaxTicks
    /\ tick' = tick + 1
    /\ job_pc' = [job_pc EXCEPT ![tick + 1] = "fetch_cluster_metrics"]
    /\ job_log' = <<>>
    /\ prev_failed' = HasFailure(job_log)
    /\ wait' = IntervalSeconds
    /\ sched_pc' = "job"
    /\ UNCHANGED <<clusterVars, syncVars, peerVars, collectVars, billVars, adminVars>>

\* Line 1629: run_pending finds no job due.
run_pending_none ==
    /\ sched_pc = "run_pending"
    /\ wait > 0 \/ tick = MaxTicks
    /\ sched_pc' = "sleep"
    /\ UNCHANGED <<wait, tick, job_pc, job_log, prev_failed>>
    /\ UNCHANGED <<clusterVars, syncVars, peerVars, collectVars, billVars, adminVars>>

\* Line 1629: run_pending().await returns; the job took some time.
run_pending_ready ==
    /\ sched_pc = "job"
    /\ job_completed(job_pc, tick)
    /\ sched_pc' = after_job(job_pc[tick])
    /\ \E w \in Waits : w <= wait /\ wait' = w
    /\ UNCHANGED <<tick, job_pc, job_log, prev_failed>>
    /\ UNCHANGED <<clusterVars, syncVars, peerVars, collectVars, billVars, adminVars>>

\* Line 1630: sleep(10 s).
scheduler_sleep ==
    /\ sched_pc = "sleep"
    /\ wait' = IF wait > SleepSeconds THEN wait - SleepSeconds ELSE 0
    /\ sched_pc' = "run_pending"
    /\ UNCHANGED <<tick, job_pc, job_log, prev_failed>>
    /\ UNCHANGED <<clusterVars, syncVars, peerVars, collectVars, billVars, adminVars>>

\* Lines 1564-1569: fetch_cluster_metrics().await and to_vec.
job_fetch_cluster_metrics(k) ==
    /\ job_pc[k] = "fetch_cluster_metrics"
    /\ \E outcome \in FetchOutcomes :
         /\ job_log' = Append(job_log, LogEntry(k, job_pc[k], outcome))
         /\ job_pc' = [job_pc EXCEPT ![k] = after_fetch_cluster_metrics(outcome)]
    /\ UNCHANGED <<sched_pc, wait, tick, prev_failed>>
    /\ UNCHANGED <<clusterVars, syncVars, peerVars, collectVars, billVars, adminVars>>

\* Lines 1570-1581: ingest_internal_stream("pmeta", ..).await.
job_ingest_pmeta(k) ==
    /\ job_pc[k] = "ingest_pmeta"
    /\ \E outcome \in IngestOutcomes :
         /\ job_log' = Append(job_log, LogEntry(k, job_pc[k], outcome))
         /\ job_pc' = [job_pc EXCEPT ![k] = after_ingest_pmeta(outcome)]
    /\ UNCHANGED <<sched_pc, wait, tick, prev_failed>>
    /\ UNCHANGED <<clusterVars, syncVars, peerVars, collectVars, billVars, adminVars>>

\* Lines 1588-1592: fetch_cluster_billing_metrics().await and to_vec.
job_fetch_cluster_billing_metrics(k) ==
    /\ job_pc[k] = "fetch_cluster_billing_metrics"
    /\ \E outcome \in FetchOutcomes :
         /\ job_log' = Append(job_log, LogEntry(k, job_pc[k], outcome))
         /\ job_pc' = [job_pc EXCEPT
                          ![k] = after_fetch_cluster_billing_metrics(outcome)]
    /\ UNCHANGED <<sched_pc, wait, tick, prev_failed>>
    /\ UNCHANGED <<clusterVars, syncVars, peerVars, collectVars, billVars, adminVars>>

\* Lines 1593-1604: ingest_internal_stream("pbilling", ..).await.
job_ingest_pbilling(k) ==
    /\ job_pc[k] = "ingest_pbilling"
    /\ \E outcome \in IngestOutcomes :
         /\ job_log' = Append(job_log, LogEntry(k, job_pc[k], outcome))
         /\ job_pc' = [job_pc EXCEPT ![k] = after_ingest_pbilling(outcome)]
    /\ UNCHANGED <<sched_pc, wait, tick, prev_failed>>
    /\ UNCHANGED <<clusterVars, syncVars, peerVars, collectVars, billVars, adminVars>>

NextScheduler ==
    \/ run_pending_start
    \/ run_pending_none
    \/ run_pending_ready
    \/ scheduler_sleep
    \/ \E k \in Ticks : job_fetch_cluster_metrics(k)
    \/ \E k \in Ticks : job_ingest_pmeta(k)
    \/ \E k \in Ticks : job_fetch_cluster_billing_metrics(k)
    \/ \E k \in Ticks : job_ingest_pbilling(k)

SpecScheduler == InitScheduler /\ [][NextScheduler]_vars

\* The spawned task and the calls it awaits are run to their end.
FairSpecScheduler == SpecScheduler /\ WF_vars(NextScheduler)

\* ----------------------- fetch_cluster_metrics, fetch_cluster_billing_metrics
\* Nodes the metastore may know.
NumNodes == 3

Nodes == 1..NumNodes

\* The roles, in the order of join4 and of the error handling (lines
\* 1153-1158, 1491-1496).
Roles == <<"Prism", "Querier", "Ingestor", "Indexer">>

RoleSet == Range(Roles)

\* What the scrape of one node can meet: check_liveness fails, send() fails,
\* res.text() fails, Scrape::parse fails, or the samples are at hand.
ScrapeOutcomes == {"not_live", "transport_error", "unreadable", "parse_error", "ok"}

\* fetch_node_metrics, lines 1076-1116: Ok(None) for a node that is not
\* live or not reached, PostError::NetworkError / CustomError through `?`
\* when the body cannot be read or parsed, Ok(Some(metrics)) otherwise.
fetch_node_metrics(n, outcome) ==
    CASE outcome \in {"not_live", "transport_error"} -> [kind |-> "None", peer |-> n]
      [] outcome = "unreadable" -> Err("NetworkError", n)
      [] outcome = "parse_error" -> Err("CustomError", n)
      [] OTHER -> [kind |-> "Some", peer |-> n]

\* fetch_node_billing_metrics, lines 1415-1454: Ok(Vec::new()) for a node
\* that is not live or not reached, an error through `?` when the body
\* cannot be read or parsed, Ok(events) otherwise.
fetch_node_billing_metrics(n, outcome) ==
    CASE outcome \in {"not_live", "transport_error"} -> [kind |-> "None", peer |-> n]
      [] outcome = "unreadable" -> Err("NetworkError", n)
      [] outcome = "parse_error" -> Err("CustomError", n)
      [] OTHER -> [kind |-> "Some", peer |-> n]

NodesOf(role, roles) == {n \in DOMAIN roles : roles[n] = role}

NodeErrors(node_results) ==
    {r \in node_results : r.kind \notin {"None", "Some"}}

NodeRecords(node_results) == {r.peer : r \in {x \in node_results : x.kind = "Some"}}

\* fetch_nodes_metrics, lines 1124-1144, on the results of the nodes of one
\* role: the results come in the order the scrapes end (buffer_unordered),
\* and the first error met is returned; the values it can return.
fetch_nodes_metrics(node_results) ==
    IF NodeErrors(node_results) = {}
    THEN {[kind |-> "Ok", records |-> NodeRecords(node_results), peer |-> 0]}
    ELSE {[kind |-> e.kind, records |-> {}, peer |-> e.peer] :
             e \in NodeErrors(node_results)}

\* fetch_nodes_billing_metrics, lines 1462-1485: errors are logged and the
\* events of the other nodes are kept.
fetch_nodes_billing_metrics(node_results) ==
    {[kind |-> "Ok", records |-> NodeRecords(node_results), peer |-> 0]}

\* The first role, in the order of Roles from the i-th on, for which
\* `bad` holds; 0 if none.
RECURSIVE FirstRole(_, _)
FirstRole(i, bad) ==
    IF i > Len(Roles) THEN 0
    ELSE IF Roles[i] \in bad THEN i ELSE FirstRole(i + 1, bad)

\* Lines 1162-1181, 1500-1518: the metadata results are unwrapped in the
\* order of Roles; the first error is returned as PostError::Invalid.
metadata_error(meta) ==
    FirstRole(1, {role \in RoleSet : meta[role] = "error"})

\* fetch_cluster_metrics, lines 1183-1218: the per-role results are matched
\* in the order of Roles and the first Err is returned, otherwise the
\* metrics of all roles together.
fetch_cluster_metrics(roles, scr) ==
    LET res(role) == {fetch_node_metrics(n, TheOne(scr[n])) : n \in NodesOf(role, roles)}
        failed == {role \in RoleSet : NodeErrors(res(role)) # {}}
        first == FirstRole(1, failed)
    IN  IF first # 0
        THEN fetch_nodes_metrics(res(Roles[first]))
        ELSE {[kind |-> "Ok", peer |-> 0,
               records |-> UNION {NodeRecords(res(role)) : role \in RoleSet}]}

\* fetch_cluster_billing_metrics, lines 1520-1553: the events of all roles
\* together; an Err of a role would only be logged.
fetch_cluster_billing_metrics(roles, scr) ==
    LET res(role) == {fetch_node_billing_metrics(n, TheOne(scr[n])) :
                         n \in NodesOf(role, roles)}
    IN  {[kind |-> "Ok", peer |-> 0,
          records |-> UNION {TheOne({r.records :
                                        r \in fetch_nodes_billing_metrics(res(role))}) :
                                role \in RoleSet}]}

\* One of the two passes is called.
InitCollect ==
    /\ QUERIER_MAP = <<>>
    /\ LAST_USED_QUERIER = None
    /\ clock = 0
    /\ IdleQueries /\ IdleRoundRobin /\ IdleSelect /\ IdleFanout
    /\ IdleSync /\ IdlePeer /\ IdleScheduler /\ IdleBilling /\ IdleAdmin
    /\ collect_pass \in {"metrics", "billing"}
    /\ collect_pc = "get_node_info"
    /\ node_role = [n \in Nodes |-> "absent"]
    /\ metadata_result = [role \in RoleSet |-> "pending"]
    /\ scrape = [n \in Nodes |-> None]
    /\ collect_result = None

\* Lines 1153-1181, 1491-1518: join4 of get_node_info for the four roles;
\* an error of a role ends the pass, otherwise the nodes are at hand and
\* their scrapes are started.
collect_get_node_info ==
    /\ collect_pc = "get_node_info"
    /\ \E meta \in [RoleSet -> {"ok", "error"}],
          roles \in [Nodes -> RoleSet \cup {"absent"}] :
         /\ metadata_result' = meta
         /\ IF metadata_error(meta) # 0
            THEN /\ collect_result' =
                        Some([kind |-> "Invalid", peer |-> 0, records |-> {}])
                 /\ collect_pc' = "done"
                 /\ UNCHANGED node_role
            ELSE /\ node_role' = roles
                 /\ collect_pc' = "scraping"
                 /\ UNCHANGED collect_result
    /\ UNCHANGED <<collect_pass, scrape>>
    /\ UNCHANGED <<clusterVars, syncVars, peerVars, schedVars, billVars, adminVars>>

\* fetch_node_metrics / fetch_node_billing_metrics of node n ends.
collect_scrape_node(n) ==
    /\ collect_pc = "scraping"
    /\ node_role[n] # "absent"
    /\ scrape[n] = None
    /\ \E outcome \in ScrapeOutcomes :
         scrape' = [scrape EXCEPT ![n] = Some(outcome)]
    /\ UNCHANGED <<collect_pass, collect_pc, node_role, metadata_result,
                   collect_result>>
    /\ UNCHANGED <<clusterVars, syncVars, peerVars, schedVars, billVars, adminVars>>

\* Every scrape has ended (join4 of the per-role passes is ready) and the
\* pass returns.
collect_return ==
    /\ collect_pc = "scraping"
    /\ \A n \in Nodes : node_role[n] # "absent" => scrape[n] # None
    /\ \E r \in IF collect_pass = "metrics"
                THEN fetch_cluster_metrics(node_role, scrape)
                ELSE fetch_cluster_billing_metrics(node_role, scrape) :
         collect_result' = Some(r)
    /\ collect_pc' = "done"
    /\ UNCHANGED <<collect_pass, node_role, metadata_result, scrape>>
    /\ UNCHANGED <<clusterVars, syncVars, peerVars, schedVars, billVars, adminVars>>

NextCollect ==
    \/ collect_get_node_info
    \/ \E n \in Nodes : collect_scrape_node(n)
    \/ collect_return

SpecCollect == InitCollect /\ [][NextCollect]_vars

\* ------------------------------------- extract_billing_metrics_from_samples
\* Samples in one call.
MaxSamples == 3

\* Samples in a call that is made twice.
MaxRepeatedSamples == 2

\* add_simple_metrics, lines 155-199: the metric types in the order they
\* are added.
SimpleMetricTypes ==
    <<"total_events_ingested", "total_events_ingested_size",
      "total_parquets_stored", "total_parquets_stored_size",
      "total_query_calls", "total_files_scanned_in_query",
      "total_bytes_scanned_in_query">>

\* add_object_store_metrics, lines 204-217.
ObjectStoreMetricTypes ==
    <<"total_object_store_calls", "total_files_scanned_in_object_store_calls",
      "total_bytes_scanned_in_object_store_calls">>

\* add_llm_metrics, lines 245-254.
LlmMetricTypes == <<"total_input_llm_tokens", "total_output_llm_tokens">>

MetricTypes ==
    Range(SimpleMetricTypes) \cup Range(ObjectStoreMetricTypes)
        \cup Range(LlmMetricTypes)

\* The prometheus metric whose samples the collector keeps in the field
\* <metric type>_by_date (lines 1263-1269, 1277-1279, 1287).
MetricName(metric_type) == "parseable_" \o metric_type \o "_by_date"

\* The metric type of a billing metric.
MetricTypeOf(metric) ==
    CHOOSE metric_type \in MetricTypes : MetricName(metric_type) = metric

\* Lines 1260-1271.
is_simple_metric(metric) ==
    \E i \in 1..Len(SimpleMetricTypes) : metric = MetricName(SimpleMetricTypes[i])

\* Lines 1274-1281.
is_object_store_metric(metric) ==
    \E i \in 1..Len(ObjectStoreMetricTypes) :
        metric = MetricName(ObjectStoreMetricTypes[i])

\* Lines 1284-1289.
is_llm_metric(metric) ==
    \E i \in 1..Len(LlmMetricTypes) : metric = MetricName(LlmMetricTypes[i])

\* A prometheus sample: its metric, the labels it has, its value in halves
\* (an f64 such as 3.5 is 7 halves) and whether it is a Counter.
Sample(metric, date, method, provider, model, halves, is_counter) ==
    [metric |-> metric,
     labels |-> [date |-> date, method |-> method, provider |-> provider,
                 model |-> model],
     halves |-> halves,
     is_counter |-> is_counter]

\* The samples the calls are given: the four of a scrape with one sample per
\* family and a zero, another value and a negative one under a key already
\* there, a second method, a missing label, a label that is not needed, a
\* gauge and a metric that is not a billing metric.
SampleUniverse ==
    {Sample("parseable_total_events_ingested_by_date",
            Some("2024-01-01"), None, None, None, 10, TRUE),
     Sample("parseable_total_object_store_calls_by_date",
            Some("2024-01-01"), Some("GET"), None, None, 20, TRUE),
     Sample("parseable_total_input_llm_tokens_by_date",
            Some("2024-01-01"), None, Some("openai"), Some("gpt-4"), 200, TRUE),
     Sample("parseable_total_parquets_stored_by_date",
            Some("2024-01-01"), None, None, None, 0, TRUE),
     Sample("parseable_total_events_ingested_by_date",
            Some("2024-01-01"), None, None, None, 7, TRUE),
     Sample("parseable_total_events_ingested_by_date",
            Some("2024-01-01"), None, None, None, -2, TRUE),
     Sample("parseable_total_object_store_calls_by_date",
            Some("2024-01-01"), Some("PUT"), None, None, 4, TRUE),
     Sample("parseable_total_input_llm_tokens_by_date",
            Some("2024-01-01"), None, Some("openai"), None, 14, TRUE),
     Sample("parseable_total_query_calls_by_date",
            Some("2024-01-02"), Some("GET"), None, None, 18, TRUE),
     Sample("parseable_total_events_ingested_by_date",
            Some("2024-01-01"), None, None, None, 16, FALSE),
     Sample("parseable_events_ingested",
            Some("2024-01-01"), None, None, None, 8, TRUE)}

\* The samples of a scrape with one sample per family and a zero.
S4Samples ==
    <<Sample("parseable_total_events_ingested_by_date",
             Some("2024-01-01"), None, None, None, 10, TRUE),
      Sample("parseable_total_object_store_calls_by_date",
             Some("2024-01-01"), Some("GET"), None, None, 20, TRUE),
      Sample("parseable_total_input_llm_tokens_by_date",
             Some("2024-01-01"), None, Some("openai"), Some("gpt-4"), 200, TRUE),
      Sample("parseable_total_parquets_stored_by_date",
             Some("2024-01-01"), None, None, None, 0, TRUE)>>

SampleSeqs(n) == UNION {[1..len -> SampleUniverse] : len \in 0..n}

\* `val as u64` (lines 1299, 1349, 1382): the fraction is dropped and a
\* negative value gives 0.
as_u64(halves) == IF halves < 0 THEN 0 ELSE halves \div 2

\* HashMap::new().
EmptyMap == [key \in {} |-> 0]

\* HashMap::insert: the value under the key is replaced.
insert(map, key, value) ==
    [k \in DOMAIN map \cup {key} |-> IF k = key THEN value ELSE map[k]]

\* HashMap::entry(key).or_insert_with(HashMap::new).
or_insert_with_new(map, key) == IF key \in DOMAIN map THEN map[key] ELSE EmptyMap

\* BillingMetricsCollector::new, lines 110-117: every map empty, event_time
\* stamped.
BillingMetricsCollector_new(node_address, node_type, now) ==
    [node_address |-> node_address,
     node_type |-> node_type,
     by_date |-> [metric_type \in MetricTypes |-> EmptyMap],
     event_time |-> now]

\* process_simple_metric with the values under a date added up.
process_simple_metric_Accumulate(collector, metric, labels, halves) ==
    IF labels.date # None
    THEN LET data == collector.by_date[MetricTypeOf(metric)]
             date == TheOne(labels.date)
         IN  [collector EXCEPT !.by_date[MetricTypeOf(metric)] =
                 insert(data, date,
                        as_u64(halves) + IF date \in DOMAIN data
                                         THEN data[date] ELSE 0)]
    ELSE collector

\* Lines 1292-1339.
process_simple_metric(collector, metric, labels, halves) ==
    IF labels.date # None
    THEN [collector EXCEPT !.by_date[MetricTypeOf(metric)] =
             insert(@, TheOne(labels.date), as_u64(halves))]
    ELSE collector

\* process_object_store_metric with the dates kept under no method.
process_object_store_metric_IgnoreMethod(collector, metric, labels, halves) ==
    IF labels.method # None /\ labels.date # None
    THEN [collector EXCEPT !.by_date[MetricTypeOf(metric)] =
             LET any == IF DOMAIN @ = {} THEN TheOne(labels.method)
                        ELSE CHOOSE m \in DOMAIN @ : TRUE
             IN  insert(@, any,
                        insert(or_insert_with_new(@, any), TheOne(labels.date),
                               as_u64(halves)))]
    ELSE collector

\* Lines 1342-1368.
process_object_store_metric(collector, metric, labels, halves) ==
    IF labels.method # None /\ labels.date # None
    THEN [collector EXCEPT !.by_date[MetricTypeOf(metric)] =
             insert(@, TheOne(labels.method),
                    insert(or_insert_with_new(@, TheOne(labels.method)),
                           TheOne(labels.date), as_u64(halves)))]
    ELSE collector

\* Lines 1371-1400.
process_llm_metric(collector, metric, labels, halves) ==
    IF labels.provider # None /\ labels.model # None /\ labels.date # None
    THEN [collector EXCEPT !.by_date[MetricTypeOf(metric)] =
             LET models == or_insert_with_new(@, TheOne(labels.provider))
                 dates == or_insert_with_new(models, TheOne(labels.model))
             IN  insert(@, TheOne(labels.provider),
                        insert(models, TheOne(labels.model),
                               insert(dates, TheOne(labels.date),
                                      as_u64(halves))))]
    ELSE collector

\* Lines 1240-1257.
process_sample(collector, sample, halves) ==
    CASE is_simple_metric(sample.metric) ->
             process_simple_metric(collector, sample.metric, sample.labels, halves)
      [] is_object_store_metric(sample.metric) ->
             process_object_store_metric(collector, sample.metric,
                                         sample.labels, halves)
      [] is_llm_metric(sample.metric) ->
             process_llm_metric(collector, sample.metric, sample.labels, halves)
      [] OTHER -> collector

\* The loop of lines 1229-1233 without `if let Value::Counter(val)`: the
\* value of a sample of any kind is processed.
RECURSIVE process_samples_AnyKind(_, _, _)
process_samples_AnyKind(collector, samples, i) ==
    IF i > Len(samples) THEN collector
    ELSE process_samples_AnyKind(
             process_sample(collector, samples[i], samples[i].halves),
             samples, i + 1)

\* Lines 1229-1233: the samples from the i-th on, Counters only.
RECURSIVE process_samples(_, _, _)
process_samples(collector, samples, i) ==
    IF i > Len(samples) THEN collector
    ELSE process_samples(
             IF samples[i].is_counter
             THEN process_sample(collector, samples[i], samples[i].halves)
             ELSE collector,
             samples, i + 1)

RECURSIVE Concat(_)
Concat(seqs) == IF seqs = <<>> THEN <<>> ELSE Head(seqs) \o Concat(Tail(seqs))

\* The keys of a HashMap in the order its iterator gives them, when `order`
\* is the order in which the iterators give the values of this kind.
IterOf(keys, order) == SelectSeq(order, LAMBDA k : k \in keys)

\* The values of the label `kind` among the samples.
LabelValues(samples, kind) ==
    UNION {samples[i].labels[kind] : i \in 1..Len(samples)}

\* The orders in which the maps built from the samples may be iterated: any
\* order of the dates, of the methods, of the providers and of the models.
IterationOrders(samples) ==
    [date : Perms(LabelValues(samples, "date")),
     method : Perms(LabelValues(samples, "method")),
     provider : Perms(LabelValues(samples, "provider")),
     model : Perms(LabelValues(samples, "model"))]

\* The BillingMetricEvent pushed at lines 138-149, 224-235 and 262-273.
BillingMetricEvent(collector, metric_type, date, value, method, provider, model) ==
    [node_address |-> collector.node_address,
     node_type |-> collector.node_type,
     metric_type |-> metric_type,
     date |-> date,
     value |-> value,
     method |-> method,
     provider |-> provider,
     model |-> model,
     event_type |-> "billing-metrics",
     event_time |-> collector.event_time]

\* The loop over one date -> value map: an event for every value > 0.
DateEvents(collector, metric_type, dates, method, provider, model, iter) ==
    LET order == IterOf(DOMAIN dates, iter.date)
    IN  SelectSeq([i \in 1..Len(order) |->
                      BillingMetricEvent(collector, metric_type, order[i],
                                         dates[order[i]], method, provider, model)],
                  LAMBDA event : event.value > 0)

\* add_simple_metric without `if *value > 0`.
simple_events_NoFilter(collector, metric_type, iter) ==
    LET dates == collector.by_date[metric_type]
        order == IterOf(DOMAIN dates, iter.date)
    IN  [i \in 1..Len(order) |->
            BillingMetricEvent(collector, metric_type, order[i],
                               dates[order[i]], None, None, None)]

\* add_simple_metric, lines 133-152, for one of the seven maps.
simple_events(collector, metric_type, iter) ==
    DateEvents(collector, metric_type, collector.by_date[metric_type],
               None, None, None, iter)

\* The object-store events with the time of a default collector.
object_store_events_DefaultTime(collector, metric_type, iter) ==
    LET data == collector.by_date[metric_type]
        methods == IterOf(DOMAIN data, iter.method)
    IN  Concat([i \in 1..Len(methods) |->
                   DateEvents([collector EXCEPT !.event_time = 0], metric_type,
                              data[methods[i]], Some(methods[i]), None, None, iter)])

\* Lines 219-240, for one of the three maps: method -> date -> value.
object_store_events(collector, metric_type, iter) ==
    LET data == collector.by_date[metric_type]
        methods == IterOf(DOMAIN data, iter.method)
    IN  Concat([i \in 1..Len(methods) |->
                   DateEvents(collector, metric_type, data[methods[i]],
                              Some(methods[i]), None, None, iter)])

\* Lines 256-279, for one of the two maps: provider -> model -> date -> value.
llm_events(collector, metric_type, iter) ==
    LET data == collector.by_date[metric_type]
        providers == IterOf(DOMAIN data, iter.provider)
        of_provider(provider) ==
            LET models == IterOf(DOMAIN data[provider], iter.model)
            IN  Concat([j \in 1..Len(models) |->
                           DateEvents(collector, metric_type,
                                      data[provider][models[j]], None,
                                      Some(provider), Some(models[j]), iter)])
    IN  Concat([i \in 1..Len(providers) |-> of_provider(providers[i])])

\* BillingMetricsCollector::into_events, lines 120-129.
into_events(collector, iter) ==
    Concat([i \in 1..Len(SimpleMetricTypes) |->
               simple_events(collector, SimpleMetricTypes[i], iter)])
    \o Concat([i \in 1..Len(ObjectStoreMetricTypes) |->
                  object_store_events(collector, ObjectStoreMetricTypes[i], iter)])
    \o Concat([i \in 1..Len(LlmMetricTypes) |->
                  llm_events(collector, LlmMetricTypes[i], iter)])

\* extract_billing_metrics_from_samples, lines 1222-1237, when Utc::now()
\* gives `now` and the maps are iterated in the orders `iter`.
extract_billing_metrics_from_samples(samples, node, now, iter) ==
    into_events(
        process_samples(
            BillingMetricsCollector_new(node.node_address, node.node_type, now),
            samples, 1),
        iter)

\* The node whose scrape the samples come from.
BillingNodes == {[node_address |-> 1, node_type |-> "ingestor"]}

\* extract_billing_metrics_from_samples is about to be called with some
\* samples.
InitBilling ==
    /\ QUERIER_MAP = <<>>
    /\ LAST_USED_QUERIER = None
    /\ clock = 0
    /\ IdleQueries /\ IdleRoundRobin /\ IdleSelect /\ IdleFanout
    /\ IdleSync /\ IdlePeer /\ IdleScheduler /\ IdleCollect /\ IdleAdmin
    /\ bill_samples \in SampleSeqs(MaxSamples) \cup {S4Samples}
    /\ bill_node \in {Some(node) : node \in BillingNodes}
    /\ bill_events = None
    /\ bill_first = None
    /\ utc_now = 0

\* The call: the clock has moved on when the collector is constructed.
extract_billing_metrics ==
    /\ bill_events = None
    /\ utc_now' = utc_now + 1
    /\ \E iter \in IterationOrders(bill_samples) :
         bill_events' = Some(extract_billing_metrics_from_samples(
                                 bill_samples, TheOne(bill_node), utc_now', iter))
    /\ UNCHANGED <<bill_samples, bill_node, bill_first>>
    /\ UNCHANGED <<clusterVars, syncVars, peerVars, schedVars, collectVars, adminVars>>

NextBilling == extract_billing_metrics

SpecBilling == InitBilling /\ [][NextBilling]_vars

\* The orders in which the samples of a sequence can be given.
Reorderings(samples) ==
    {[i \in 1..Len(samples) |-> samples[p[i]]] : p \in Perms(1..Len(samples))}

InitBillingTwice ==
    /\ QUERIER_MAP = <<>>
    /\ LAST_USED_QUERIER = None
    /\ clock = 0
    /\ IdleQueries /\ IdleRoundRobin /\ IdleSelect /\ IdleFanout
    /\ IdleSync /\ IdlePeer /\ IdleScheduler /\ IdleCollect /\ IdleAdmin
    /\ bill_samples \in SampleSeqs(MaxRepeatedSamples)
    /\ bill_node \in {Some(node) : node \in BillingNodes}
    /\ bill_events = None
    /\ bill_first = None
    /\ utc_now = 0

\* A second call for the same node on the same samples, in any order; the
\* clock may have moved on since the first.
extract_billing_metrics_again ==
    /\ bill_events # None
    /\ bill_first = None
    /\ bill_first' = Some([samples |-> bill_samples, events |-> TheOne(bill_events)])
    /\ bill_samples' \in Reorderings(bill_samples)
    /\ utc_now' \in {utc_now, utc_now + 1}
    /\ \E iter \in IterationOrders(bill_samples) :
         bill_events' = Some(extract_billing_metrics_from_samples(
                                 bill_samples', TheOne(bill_node), utc_now', iter))
    /\ UNCHANGED bill_node
    /\ UNCHANGED <<clusterVars, syncVars, peerVars, schedVars, collectVars, adminVars>>

NextBillingTwice == extract_billing_metrics \/ extract_billing_metrics_again

SpecBillingTwice == InitBillingTwice /\ [][NextBillingTwice]_vars

\* --------------------------------------------------------- get_cluster_info
\* Nodes the metastore may know when get_cluster_info is called.
NumInfoNodes == 2

InfoNodes == 1..NumInfoNodes

\* What the /about exchange with one node can meet: send() fails, the body
\* cannot be read, the body is not JSON, the JSON has no field `staging`,
\* the field is not a string, or the staging path is at hand.
AboutOutcomes ==
    {"transport_error", "unreadable", "not_json", "missing_staging",
     "staging_not_string", "ok"}

ClusterInfo(n, reachable, error) ==
    [kind |-> "ClusterInfo", peer |-> n, reachable |-> reachable, error |-> error]

\* fetch_node_info, lines 898-955: a response that was received is unpacked
\* with `?` (StreamError::Network when the body cannot be read,
\* StreamError::SerdeError when it is not JSON or `staging` is missing or
\* not a string) and gives reachable = true; a send() that failed gives
\* reachable = false with the error recorded.
fetch_node_info(n, outcome) ==
    CASE outcome = "ok" -> ClusterInfo(n, TRUE, None)
      [] outcome = "transport_error" -> ClusterInfo(n, FALSE, Some(outcome))
      [] outcome = "unreadable" -> Err("Network", n)
      [] OTHER -> Err("SerdeError", n)

\* fetch_nodes_info, lines 958-978, on the results of the nodes of one
\* role: the results come in the order the exchanges end (buffer_unordered)
\* and the first error met is returned; the values it can return.
fetch_nodes_info(node_results) ==
    LET errors == {r \in node_results : r.kind # "ClusterInfo"}
    IN  IF errors = {}
        THEN {[kind |-> "Ok", infos |-> order, peer |-> 0] : order \in Perms(node_results)}
        ELSE {[kind |-> e.kind, infos |-> <<>>, peer |-> e.peer] : e \in errors}

\* Lines 886-892 of get_cluster_info from the i-th role on: the per-role
\* results are unwrapped in the order of Roles and appended to `infos`.
RECURSIVE combine_infos(_, _, _)
combine_infos(i, per_role, infos) ==
    IF i > Len(Roles) THEN [kind |-> "Ok", infos |-> infos, peer |-> 0]
    ELSE IF per_role[Roles[i]].kind # "Ok" THEN per_role[Roles[i]]
    ELSE combine_infos(i + 1, per_role, infos \o per_role[Roles[i]].infos)

\* Lines 878-892: join4 of fetch_nodes_info for the four roles, then the
\* results together; the values get_cluster_info can return.
cluster_infos(roles, exchanges) ==
    LET res(role) == {fetch_node_info(n, TheOne(exchanges[n])) : n \in NodesOf(role, roles)}
        all == UNION {fetch_nodes_info(res(role)) : role \in RoleSet}
    IN  {combine_infos(1, per_role, <<>>) :
            per_role \in {f \in [RoleSet -> all] :
                             \A role \in RoleSet : f[role] \in fetch_nodes_info(res(role))}}

InitClusterInfo ==
    /\ QUERIER_MAP = <<>>
    /\ LAST_USED_QUERIER = None
    /\ clock = 0
    /\ IdleQueries /\ IdleRoundRobin /\ IdleSelect /\ IdleFanout
    /\ IdleSync /\ IdlePeer /\ IdleScheduler /\ IdleCollect /\ IdleBilling
    /\ IdleRemove /\ IdleDemo /\ IdleFlatten /\ IdleLocks
    /\ info_pc = "get_node_info"
    /\ info_node_role = [n \in InfoNodes |-> "absent"]
    /\ info_metadata_result = [role \in RoleSet |-> "pending"]
    /\ about = [n \in InfoNodes |-> None]
    /\ info_result = None

\* Lines 837-875: join4 of get_node_info for the four roles; an error of a
\* role ends the request with StreamError::Anyhow, otherwise the nodes are
\* at hand and their exchanges are started.
get_cluster_info_get_node_info ==
    /\ info_pc = "get_node_info"
    /\ \E meta \in [RoleSet -> {"ok", "error"}],
          roles \in [InfoNodes -> RoleSet \cup {"absent"}] :
         /\ info_metadata_result' = meta
         /\ IF metadata_error(meta) # 0
            THEN /\ info_result' = Some([kind |-> "Anyhow", infos |-> <<>>, peer |-> 0])
                 /\ info_pc' = "done"
                 /\ UNCHANGED info_node_role
            ELSE /\ info_node_role' = roles
                 /\ info_pc' = "fetching"
                 /\ UNCHANGED info_result
    /\ UNCHANGED about
    /\ UNCHANGED <<nonAdminVars, removeVars, demoVars, flatVars, lockVars>>

\* fetch_node_info of node n ends.
get_cluster_info_fetch_node_info(n) ==
    /\ info_pc = "fetching"
    /\ info_node_role[n] # "absent"
    /\ about[n] = None
    /\ \E outcome \in AboutOutcomes :
         about' = [about EXCEPT ![n] = Some(outcome)]
    /\ UNCHANGED <<info_pc, info_node_role, info_metadata_result, info_result>>
    /\ UNCHANGED <<nonAdminVars, removeVars, demoVars, flatVars, lockVars>>

\* Every exchange has ended and get_cluster_info returns.
get_cluster_info_return ==
    /\ info_pc = "fetching"
    /\ \A n \in InfoNodes : info_node_role[n] # "absent" => about[n] # None
    /\ \E r \in cluster_infos(info_node_role, about) : info_result' = Some(r)
    /\ info_pc' = "done"
    /\ UNCHANGED <<info_node_role, info_metadata_result, about>>
    /\ UNCHANGED <<nonAdminVars, removeVars, demoVars, flatVars, lockVars>>

NextClusterInfo ==
    \/ get_cluster_info_get_node_info
    \/ \E n \in InfoNodes : get_cluster_info_fetch_node_info(n)
    \/ get_cluster_info_return

SpecClusterInfo == InitClusterInfo /\ [][NextClusterInfo]_vars

\* -------------------------------------------------------------- remove_node
\* The role keys in the order of the delete_node_metadata calls (lines
\* 1026-1047).
DeleteOrder == <<"Ingestor", "Indexer", "Querier", "Prism">>

\* What one delete_node_metadata call can return: Ok(true), Ok(false), Err.
DeleteOutcomes == {"removed", "not_found", "metastore_error"}

\* Lines 1019-1023 without the early return: a live node is deleted too.
after_check_liveness_Ignore(live) == "delete"

\* Lines 1019-1023: a live node is rejected before any deletion.
after_check_liveness(live) == IF live THEN "rejected" ELSE "delete"

\* Lines 1049-1057 with && in place of ||.
removed_any_All(calls) ==
    \A i \in 1..Len(calls) : calls[i].outcome = "removed"

\* Line 1049: removed_ingestor || removed_indexer || removed_querier ||
\* removed_prism.
removed_any(calls) ==
    \E i \in 1..Len(calls) : calls[i].outcome = "removed"

InitRemove ==
    /\ QUERIER_MAP = <<>>
    /\ LAST_USED_QUERIER = None
    /\ clock = 0
    /\ IdleQueries /\ IdleRoundRobin /\ IdleSelect /\ IdleFanout
    /\ IdleSync /\ IdlePeer /\ IdleScheduler /\ IdleCollect /\ IdleBilling
    /\ IdleClusterInfo /\ IdleDemo /\ IdleFlatten /\ IdleLocks
    /\ rm_pc = "check_liveness"
    /\ rm_target \in Nodes
    /\ rm_live = None
    /\ rm_calls = <<>>
    /\ rm_result = None

\* Lines 1019-1023: the liveness probe of the target.
remove_node_check_liveness ==
    /\ rm_pc = "check_liveness"
    /\ \E live \in BOOLEAN :
         /\ rm_live' = Some(live)
         /\ IF after_check_liveness(live) = "rejected"
            THEN /\ rm_result' = Some([kind |-> "Invalid", message |-> "live",
                                       domain |-> rm_target])
                 /\ rm_pc' = "done"
            ELSE /\ rm_pc' = "delete"
                 /\ UNCHANGED rm_result
    /\ UNCHANGED <<rm_target, rm_calls>>
    /\ UNCHANGED <<nonAdminVars, infoVars, demoVars, flatVars, lockVars>>

\* Lines 1026-1047: the next delete_node_metadata call; its error is
\* returned through `?`.
remove_node_delete_node_metadata ==
    /\ rm_pc = "delete"
    /\ Len(rm_calls) < Len(DeleteOrder)
    /\ \E outcome \in DeleteOutcomes :
         /\ rm_calls' = Append(rm_calls, [role |-> DeleteOrder[Len(rm_calls) + 1],
                                          outcome |-> outcome])
         /\ IF outcome = "metastore_error"
            THEN /\ rm_result' = Some([kind |-> "MetastoreError", message |-> "",
                                       domain |-> rm_target])
                 /\ rm_pc' = "done"
            ELSE UNCHANGED <<rm_result, rm_pc>>
    /\ UNCHANGED <<rm_target, rm_live>>
    /\ UNCHANGED <<nonAdminVars, infoVars, demoVars, flatVars, lockVars>>

\* Lines 1049-1057: the answer after the four deletions.
remove_node_return ==
    /\ rm_pc = "delete"
    /\ Len(rm_calls) = Len(DeleteOrder)
    /\ rm_result' =
          Some(IF removed_any(rm_calls)
               THEN [kind |-> "Ok", message |-> "removed successfully", domain |-> rm_target]
               ELSE [kind |-> "Invalid", message |-> "not found", domain |-> rm_target])
    /\ rm_pc' = "done"
    /\ UNCHANGED <<rm_target, rm_live, rm_calls>>
    /\ UNCHANGED <<nonAdminVars, infoVars, demoVars, flatVars, lockVars>>

NextRemove ==
    \/ remove_node_check_liveness
    \/ remove_node_delete_node_metadata
    \/ remove_node_return

SpecRemove == InitRemove /\ [][NextRemove]_vars

\* ---------------------------------------------- get_demo_data_from_ingestor
\* What the forwarded request can meet: send() fails, a status that is not
\* 2xx, or a 2xx status.
DemoOutcomes == {"transport_error", "non_success", "ok"}

\* The loop of lines 383-388 without the break of line 386.
after_liveness_check_NoBreak(live, last) ==
    IF last THEN "after_loop" ELSE "probing"

\* Lines 383-388: the loop ends at the first live ingestor (break) or after
\* the last ingestor.
after_liveness_check(live, last) ==
    IF live \/ last THEN "after_loop" ELSE "probing"

\* The ingestors pushed to live_ingestors (lines 384-385).
demo_live_ingestors(probes) ==
    SelectSeq(probes, LAMBDA p : p.live)

\* Lines 411-427: the value returned after the request.
demo_answer(outcome) ==
    IF outcome = "ok" THEN [kind |-> "Ok", message |-> ""]
    ELSE [kind |-> "Invalid", message |-> outcome]

InitDemo ==
    /\ QUERIER_MAP = <<>>
    /\ LAST_USED_QUERIER = None
    /\ clock = 0
    /\ IdleQueries /\ IdleRoundRobin /\ IdleSelect /\ IdleFanout
    /\ IdleSync /\ IdlePeer /\ IdleScheduler /\ IdleCollect /\ IdleBilling
    /\ IdleClusterInfo /\ IdleRemove /\ IdleFlatten /\ IdleLocks
    /\ demo_pc = "get_node_info"
    /\ demo_infos = None
    /\ demo_probes = <<>>
    /\ demo_requests = <<>>
    /\ demo_result = None

\* Lines 376-380: get_node_info(Ingestor); its error is returned as
\* PostError::Invalid.
get_demo_data_get_node_info ==
    /\ demo_pc = "get_node_info"
    /\ \/ /\ demo_result' = Some([kind |-> "Invalid", message |-> "get_node_info"])
          /\ demo_pc' = "done"
          /\ UNCHANGED demo_infos
       \/ \E infos \in IngestorLists :
            /\ demo_infos' = Some(infos)
            /\ demo_pc' = IF Len(infos) = 0 THEN "after_loop" ELSE "probing"
            /\ UNCHANGED demo_result
    /\ UNCHANGED <<demo_probes, demo_requests>>
    /\ UNCHANGED <<nonAdminVars, infoVars, removeVars, flatVars, lockVars>>

\* Lines 383-388: the liveness probe of the next ingestor.
get_demo_data_check_liveness ==
    /\ demo_pc = "probing"
    /\ LET infos == TheOne(demo_infos)
           next == Len(demo_probes) + 1
       IN  \E live \in BOOLEAN :
             /\ demo_probes' = Append(demo_probes, [ingestor |-> infos[next], live |-> live])
             /\ demo_pc' = after_liveness_check(live, next = Len(infos))
    /\ UNCHANGED <<demo_infos, demo_requests, demo_result>>
    /\ UNCHANGED <<nonAdminVars, infoVars, removeVars, flatVars, lockVars>>

\* Lines 390-394: no live ingestor.
get_demo_data_no_live_ingestor ==
    /\ demo_pc = "after_loop"
    /\ Len(demo_live_ingestors(demo_probes)) = 0
    /\ demo_result' = Some([kind |-> "Invalid", message |-> "No live ingestors found"])
    /\ demo_pc' = "done"
    /\ UNCHANGED <<demo_infos, demo_probes, demo_requests>>
    /\ UNCHANGED <<nonAdminVars, infoVars, removeVars, flatVars, lockVars>>

\* Lines 396-427: the request to live_ingestors[0] and the answer.
get_demo_data_send ==
    /\ demo_pc = "after_loop"
    /\ Len(demo_live_ingestors(demo_probes)) > 0
    /\ \E outcome \in DemoOutcomes :
         /\ demo_requests' = Append(demo_requests,
                                   [ingestor |-> demo_live_ingestors(demo_probes)[1].ingestor,
                                    outcome |-> outcome])
         /\ demo_result' = Some(demo_answer(outcome))
    /\ demo_pc' = "done"
    /\ UNCHANGED <<demo_infos, demo_probes>>
    /\ UNCHANGED <<nonAdminVars, infoVars, removeVars, flatVars, lockVars>>

NextDemo ==
    \/ get_demo_data_get_node_info
    \/ get_demo_data_check_liveness
    \/ get_demo_data_no_live_ingestor
    \/ get_demo_data_send

SpecDemo == InitDemo /\ [][NextDemo]_vars

\* ------------------------------------- flatten_objects_for_count (query/mod.rs)
\* Objects in one call, and the largest count in an object.
MaxObjects == 2
MaxCount == 2

\* Keys are strings, modelled as sequences of characters: the keys of the
\* tests ("COUNT(*)", "COUNT(ALPHA)" shortened, "Num").
COUNT == <<"C", "O", "U", "N", "T">>

JsonKeys == {COUNT \o <<"(", "*", ")">>, COUNT \o <<"(", "A", ")">>, <<"N", "u", "m">>}

\* A JSON object whose values are counts: a function from its keys.
JsonObjects == UNION {[ks -> 1..MaxCount] : ks \in SUBSET JsonKeys}

ObjectLists == UNION {[1..n -> JsonObjects] : n \in 0..MaxObjects}

\* str::starts_with answering yes for every key.
starts_with_Any(key, prefix) == TRUE

\* str::starts_with.
starts_with(key, prefix) ==
    Len(key) >= Len(prefix) /\ SubSeq(key, 1, Len(prefix)) = prefix

\* obj.keys().next(): the first key of an object that has keys.  Which key
\* of several comes first depends on the map behind serde_json::Map; the
\* result of flatten_objects_for_count does not depend on it, since an
\* object with several keys fails the test of line 366 whichever is first.
first_key(obj) == CHOOSE k \in DOMAIN obj : TRUE

\* Lines 380-383: the fold over the keys of one object.
RECURSIVE fold_keys(_, _)
fold_keys(obj, keys) ==
    IF keys = {} THEN 0
    ELSE LET k == CHOOSE x \in keys : TRUE
         IN  obj[k] + fold_keys(obj, keys \ {k})

\* Lines 379-385: the loop over the objects from the i-th on.
RECURSIVE accumulate(_, _, _)
accumulate(objects, i, accum) ==
    IF i > Len(objects) THEN accum
    ELSE accumulate(objects, i + 1, accum + fold_keys(objects[i], DOMAIN objects[i]))

\* flatten_objects_for_count, lines 351-393.  The closure of line 366 and
\* line 376 unwrap the first key of objects[0], which panics when that
\* object has no key; the closure runs for the first key met once the test
\* of lines 357-362 has passed.
flatten_objects_for_count(objects) ==
    IF Len(objects) = 0 THEN [kind |-> "returned", value |-> objects]
    ELSE LET all_count == \A i \in 1..Len(objects) : \A key \in DOMAIN objects[i] :
                              starts_with(key, COUNT)
         IN  IF ~all_count THEN [kind |-> "returned", value |-> objects]
             ELSE IF DOMAIN objects[1] = {} THEN [kind |-> "panicked", value |-> <<>>]
             ELSE LET key == first_key(objects[1])
                      flag == \A i \in 1..Len(objects) : \A k \in DOMAIN objects[i] : k = key
                  IN  IF flag
                      THEN [kind |-> "returned",
                            value |-> <<[k \in {key} |-> accumulate(objects, 1, 0)]>>]
                      ELSE [kind |-> "returned", value |-> objects]

InitFlatten ==
    /\ QUERIER_MAP = <<>>
    /\ LAST_USED_QUERIER = None
    /\ clock = 0
    /\ IdleQueries /\ IdleRoundRobin /\ IdleSelect /\ IdleFanout
    /\ IdleSync /\ IdlePeer /\ IdleScheduler /\ IdleCollect /\ IdleBilling
    /\ IdleClusterInfo /\ IdleRemove /\ IdleDemo /\ IdleLocks
    /\ flat_objects \in ObjectLists
    /\ flat_out = None

\* One call of flatten_objects_for_count.
flatten ==
    /\ flat_out = None
    /\ flat_out' = Some(flatten_objects_for_count(flat_objects))
    /\ UNCHANGED flat_objects
    /\ UNCHANGED <<nonAdminVars, infoVars, removeVars, demoVars, lockVars>>

NextFlatten == flatten

SpecFlatten == InitFlatten /\ [][NextFlatten]_vars

\* ------------------------------------ QUERIER_MAP and LAST_USED_QUERIER locks
\* Concurrent tasks, each running get_available_querier or
\* mark_querier_available once.  Only the guards are modelled here; what is
\* read and written under them is in the dispatcher above.
NumTasks == 3

Tasks == 1..NumTasks

\* Lines 1757, 1768, 1775 left out: the read guard is kept.
drop_last_used_Kept(readers, t) == readers

\* drop(last_used), lines 1757, 1768, 1775.
drop_last_used(readers, t) == readers \ {t}

InitLocks ==
    /\ QUERIER_MAP = <<>>
    /\ LAST_USED_QUERIER = None
    /\ clock = 0
    /\ IdleQueries /\ IdleRoundRobin /\ IdleSelect /\ IdleFanout
    /\ IdleSync /\ IdlePeer /\ IdleScheduler /\ IdleCollect /\ IdleBilling
    /\ IdleClusterInfo /\ IdleRemove /\ IdleDemo /\ IdleFlatten
    /\ lk_kind \in [Tasks -> {"get_available_querier", "mark_querier_available"}]
    /\ lk_pc = [t \in Tasks |-> "start"]
    /\ lk_map = None
    /\ lk_ptr_readers = {}
    /\ lk_ptr_writer = None

\* Lines 1658, 1823: QUERIER_MAP.write().await is granted.
map_write(t) ==
    /\ lk_pc[t] = "start"
    /\ lk_map = None
    /\ lk_map' = Some(t)
    /\ lk_pc' = [lk_pc EXCEPT ![t] = IF lk_kind[t] = "mark_querier_available"
                                     THEN "marking" ELSE "probing"]
    /\ UNCHANGED <<lk_kind, lk_ptr_readers, lk_ptr_writer>>
    /\ UNCHANGED <<nonAdminVars, infoVars, removeVars, demoVars, flatVars>>

\* Lines 1824-1828: the entry is marked and the guard is dropped on return.
mark_and_unlock(t) ==
    /\ lk_pc[t] = "marking"
    /\ lk_map' = None
    /\ lk_pc' = [lk_pc EXCEPT ![t] = "done"]
    /\ UNCHANGED <<lk_kind, lk_ptr_readers, lk_ptr_writer>>
    /\ UNCHANGED <<nonAdminVars, infoVars, removeVars, demoVars, flatVars>>

\* Lines 1664-1747: the probes end, the map is refreshed and
\* select_next_querier finds available queriers or none.
probes_end(t) ==
    /\ lk_pc[t] = "probing"
    /\ \E some_available \in BOOLEAN :
         lk_pc' = [lk_pc EXCEPT ![t] = IF some_available THEN "read_pointer"
                                       ELSE "fallback"]
    /\ UNCHANGED <<lk_kind, lk_map, lk_ptr_readers, lk_ptr_writer>>
    /\ UNCHANGED <<nonAdminVars, infoVars, removeVars, demoVars, flatVars>>

\* Line 1750: LAST_USED_QUERIER.read().await is granted.
pointer_read(t) ==
    /\ lk_pc[t] = "read_pointer"
    /\ lk_ptr_writer = None
    /\ lk_ptr_readers' = lk_ptr_readers \cup {t}
    /\ lk_pc' = [lk_pc EXCEPT ![t] = "choosing"]
    /\ UNCHANGED <<lk_kind, lk_map, lk_ptr_writer>>
    /\ UNCHANGED <<nonAdminVars, infoVars, removeVars, demoVars, flatVars>>

\* Lines 1752-1776 up to the write(): the next domain is chosen and the
\* read guard is dropped.
choose_and_drop(t) ==
    /\ lk_pc[t] = "choosing"
    /\ lk_ptr_readers' = drop_last_used(lk_ptr_readers, t)
    /\ lk_pc' = [lk_pc EXCEPT ![t] = "write_pointer"]
    /\ UNCHANGED <<lk_kind, lk_map, lk_ptr_writer>>
    /\ UNCHANGED <<nonAdminVars, infoVars, removeVars, demoVars, flatVars>>

\* Lines 1758, 1769, 1776: LAST_USED_QUERIER.write().await is granted.
pointer_write(t) ==
    /\ lk_pc[t] = "write_pointer"
    /\ lk_ptr_writer = None
    /\ lk_ptr_readers = {}
    /\ lk_ptr_writer' = Some(t)
    /\ lk_pc' = [lk_pc EXCEPT ![t] = "writing"]
    /\ UNCHANGED <<lk_kind, lk_map, lk_ptr_readers>>
    /\ UNCHANGED <<nonAdminVars, infoVars, removeVars, demoVars, flatVars>>

\* The pointer is assigned and the temporary write guard is dropped at the
\* end of the statement; select_next_querier returns.
pointer_unlock(t) ==
    /\ lk_pc[t] = "writing"
    /\ lk_ptr_writer' = None
    /\ lk_pc' = [lk_pc EXCEPT ![t] = "dispatch"]
    /\ UNCHANGED <<lk_kind, lk_map, lk_ptr_readers>>
    /\ UNCHANGED <<nonAdminVars, infoVars, removeVars, demoVars, flatVars>>

\* Lines 1711-1728: the entry is dispatched, or the fallback runs, and
\* get_available_querier returns, which drops the map guard.
return_and_unlock(t) ==
    /\ lk_pc[t] \in {"dispatch", "fallback"}
    /\ lk_map' = None
    /\ lk_pc' = [lk_pc EXCEPT ![t] = "done"]
    /\ UNCHANGED <<lk_kind, lk_ptr_readers, lk_ptr_writer>>
    /\ UNCHANGED <<nonAdminVars, infoVars, removeVars, demoVars, flatVars>>

NextLocks ==
    \E t \in Tasks :
        \/ map_write(t)
        \/ mark_and_unlock(t)
        \/ probes_end(t)
        \/ pointer_read(t)
        \/ choose_and_drop(t)
        \/ pointer_write(t)
        \/ pointer_unlock(t)
        \/ return_and_unlock(t)

SpecLocks == InitLocks /\ [][NextLocks]_vars

\* ------------------------- extract_billing_metrics_from_samples: skipped samples
\* Samples for the skipping of lines 1230 and 1245-1255, 1298, 1348, 1376-1380:
\* one sample of each family with the labels it needs, and under the same
\* dates a sample without each label a family needs, a gauge and a metric
\* that is not a billing metric.
SkipUniverse ==
    {Sample("parseable_total_events_ingested_by_date",
            Some("2024-01-01"), None, None, None, 10, TRUE),
     Sample("parseable_total_object_store_calls_by_date",
            Some("2024-01-01"), Some("GET"), None, None, 20, TRUE),
     Sample("parseable_total_input_llm_tokens_by_date",
            Some("2024-01-01"), None, Some("openai"), Some("gpt-4"), 200, TRUE),
     Sample("parseable_total_events_ingested_by_date",
            None, None, None, None, 6, TRUE),
     Sample("parseable_total_object_store_calls_by_date",
            Some("2024-01-01"), None, None, None, 8, TRUE),
     Sample("parseable_total_object_store_calls_by_date",
            None, Some("GET"), None, None, 12, TRUE),
     Sample("parseable_total_input_llm_tokens_by_date",
            Some("2024-01-01"), None, None, Some("gpt-4"), 14, TRUE),
     Sample("parseable_total_input_llm_tokens_by_date",
            Some("2024-01-01"), None, Some("openai"), None, 16, TRUE),
     Sample("parseable_total_input_llm_tokens_by_date",
            None, None, Some("openai"), Some("gpt-4"), 18, TRUE),
     Sample("parseable_total_object_store_calls_by_date",
            Some("2024-01-01"), Some("GET"), None, None, 22, FALSE),
     Sample("parseable_events_ingested",
            Some("2024-01-01"), None, None, None, 24, TRUE)}

InitSkipped ==
    /\ QUERIER_MAP = <<>>
    /\ LAST_USED_QUERIER = None
    /\ clock = 0
    /\ IdleQueries /\ IdleRoundRobin /\ IdleSelect /\ IdleFanout
    /\ IdleSync /\ IdlePeer /\ IdleScheduler /\ IdleCollect /\ IdleAdmin
    /\ bill_samples \in UNION {[1..len -> SkipUniverse] : len \in 0..MaxSamples}
    /\ bill_node \in {Some(node) : node \in BillingNodes}
    /\ bill_events = None
    /\ bill_first = None
    /\ utc_now = 0

SpecSkipped == InitSkipped /\ [][NextBilling]_vars

\* ------------------------------------- concurrent acquires, one fixed live set
\* QUERIER_MAP.write().await of line 1658 granted whoever holds the guard.
write_granted_Shared(holder) == TRUE

\* Line 1658: QUERIER_MAP.write().await is granted when no task holds the
\* guard.
write_granted(holder) == holder = None

\* Some of the queries call get_available_querier at the same time, the
\* metastore has reported the queriers to each of them, the same non-empty
\* set of queriers answers every liveness probe, every entry of the
\* registry is available and no querier is released.
InitConcurrent ==
    /\ QUERIER_MAP \in IdleRegistries
    /\ LAST_USED_QUERIER \in {None} \cup {Some(d) : d \in Domains}
    /\ map_lock = None
    /\ clock = 0
    /\ pc \in [Queries -> {"lock", "done"}]
    /\ querier_metadata = [q \in Queries |-> {}]
    /\ querier = [q \in Queries |-> None]
    /\ last_cycle = None
    /\ returned = None
    /\ cycle_live \in (SUBSET Domains) \ {{}}
    /\ selected = <<>>
    /\ holding = None
    /\ IdleSelect /\ IdleFanout /\ IdleOther

\* Line 1658: the write guard of QUERIER_MAP is granted to q; it is held
\* until get_available_querier returns.
concurrent_lock(q) ==
    /\ pc[q] = "lock"
    /\ write_granted(map_lock)
    /\ map_lock' = Some(q)
    /\ pc' = [pc EXCEPT ![q] = "probing"]
    /\ UNCHANGED <<QUERIER_MAP, LAST_USED_QUERIER, clock, querier_metadata,
                   querier, last_cycle, returned>>
    /\ UNCHANGED <<rrVars, selVars, fanVars, otherVars>>

\* Lines 1664-1757: the probes end, the map is refreshed, and
\* select_next_querier chooses among the available entries up to
\* drop(last_used), where it awaits LAST_USED_QUERIER.write(); with no entry
\* available select_least_recently_used_querier chooses.
concurrent_choose(q) ==
    /\ pc[q] = "probing"
    /\ \E order \in InsertOrders(QUERIER_MAP, cycle_live) :
         LET refreshed == RefreshMap(QUERIER_MAP, cycle_live, order)
             sel == SelectAndDispatch(refreshed, LAST_USED_QUERIER, clock + 1)
         IN  /\ QUERIER_MAP' = refreshed
             /\ querier' = [querier EXCEPT ![q] = sel.ret]
             /\ pc' = [pc EXCEPT ![q] = IF sel.strategy = "round_robin"
                                        THEN "write_pointer" ELSE "dispatch"]
    /\ UNCHANGED <<LAST_USED_QUERIER, map_lock, clock, querier_metadata,
                   last_cycle, returned>>
    /\ UNCHANGED <<rrVars, selVars, fanVars, otherVars>>

\* Lines 1758, 1769, 1776 and 1713-1715 or 1722-1724: the pointer is written
\* when round-robin chose, the entry chosen is dispatched,
\* get_available_querier returns and the guard is dropped.
concurrent_dispatch(q) ==
    /\ pc[q] \in {"write_pointer", "dispatch"}
    /\ LAST_USED_QUERIER' = IF pc[q] = "write_pointer"
                            THEN Some(TheOne(querier[q]).domain_name)
                            ELSE LAST_USED_QUERIER
    /\ QUERIER_MAP' = Dispatched(QUERIER_MAP, TheOne(querier[q]).domain_name, clock + 1)
    /\ clock' = clock + 1
    /\ selected' = Append(selected, TheOne(querier[q]).domain_name)
    /\ map_lock' = None
    /\ pc' = [pc EXCEPT ![q] = "request"]
    /\ UNCHANGED <<querier_metadata, querier, last_cycle, returned, cycle_live, holding>>
    /\ UNCHANGED <<selVars, fanVars, otherVars>>

NextConcurrent ==
    \E q \in Queries :
        \/ concurrent_lock(q)
        \/ concurrent_choose(q)
        \/ concurrent_dispatch(q)

SpecConcurrent == InitConcurrent /\ [][NextConcurrent]_vars

\* ---------------------------------------------------- dispatcher: claims
\* The queries that hold a querier: acquired, mark_querier_available not yet run.
InFlight == {q \in Queries : pc[q] = "request"}

InFlightOn(d) == {q \in InFlight : TheOne(querier[q]).domain_name = d}

Unavailable(map) == {i \in 1..Len(map) : ~map[i].available}

C2_UnavailableAtMostInFlight ==
    Cardinality(Unavailable(QUERIER_MAP)) <= Cardinality(InFlight)

C2_Witness ==
    /\ Cardinality(Unavailable(QUERIER_MAP)) = 1
    /\ Cardinality(InFlight) = 2

\* C5: after a refresh-and-select cycle the domains of QUERIER_MAP are exactly
\* the domains whose probe succeeded in that cycle (and stay so until the
\* next cycle).
C5_RegistryIsLiveSet ==
    last_cycle # None => Keys(QUERIER_MAP) = TheOne(last_cycle).live

\* A querier that was dispatched (a query still holds it) has been pruned by
\* a later cycle that found only the other one live.
C5_Witness ==
    /\ last_cycle # None
    /\ TheOne(last_cycle).live = {2}
    /\ Keys(QUERIER_MAP) = {2}
    /\ InFlightOn(1) # {}

\* C6 (as claimed): no query awaits its liveness probes while it holds the
\* QUERIER_MAP write lock.
C6_NoProbeUnderLock ==
    \A q \in Queries : pc[q] = "probing" => map_lock # Some(q)

\* C7: get_available_querier fails with NoAvailableQuerier exactly when the
\* metastore reports no querier or no reported querier is live (a metastore
\* failure is another error), and when some reported querier is live it
\* returns the metadata of a querier of that cycle's live set.
C7_NoAvailableQuerierIff ==
    /\ returned # None /\ TheOne(returned).querier = None =>
          LET call == TheOne(returned)
          IN  /\ call.result \in {"NoAvailableQuerier", "MetastoreError"}
              /\ call.result = "NoAvailableQuerier"
                    <=> \/ call.reported = Some({})
                        \/ call.reported # None /\ call.live = Some({})
              /\ call.result = "MetastoreError" <=> call.reported = None
    /\ last_cycle # None =>
          LET cycle == TheOne(last_cycle)
          IN  /\ cycle.live = {} <=> cycle.ret = None
              /\ cycle.ret # None => TheOne(cycle.ret).domain_name \in cycle.live

\* No querier is available (the only live one is dispatched) and the cycle
\* still returns one.
C7_Witness ==
    /\ last_cycle # None
    /\ TheOne(last_cycle).ret # None
    /\ Cardinality(InFlightOn(TheOne(TheOne(last_cycle).ret).domain_name)) = 2

\* C8: an entry with available=false always has an in-flight query
\* dispatched to it, and it eventually is available again or removed.
C8_EventuallyReleased ==
    /\ [](\A i \in Unavailable(QUERIER_MAP) : InFlightOn(QUERIER_MAP[i].domain) # {})
    /\ \A d \in Domains :
          (d \in Keys(QUERIER_MAP) /\ ~Entry(QUERIER_MAP, d).available)
             ~> (d \notin Keys(QUERIER_MAP) \/ Entry(QUERIER_MAP, d).available)

C8_Witness ==
    /\ Cardinality(Unavailable(QUERIER_MAP)) = 2
    /\ Cardinality(InFlight) = 2

\* C3: with a fixed live set of N queriers, all available, and strictly
\* sequential acquire/release cycles, every window of N consecutive cycles
\* selects each of the N queriers exactly once.
C3_RoundRobinFair ==
    LET N == Cardinality(cycle_live)
    IN  \A i \in 1..Len(selected) :
            i + N - 1 <= Len(selected)
                => /\ {selected[j] : j \in i..(i + N - 1)} = cycle_live
                   /\ \A j, k \in i..(i + N - 1) : selected[j] = selected[k] => j = k

C3_Witness ==
    /\ cycle_live = Domains
    /\ Len(selected) >= 2 * Cardinality(Domains)
    /\ selected[1] # 1

\* last_used a is no later than last_used b, None being before every instant.
NoLater(a, b) == a = None \/ (b # None /\ TheOne(a) <= TheOne(b))

\* C4: when every entry of the registry is unavailable at selection time,
\* get_available_querier returns an entry whose last_used is minimal over
\* all entries, None counting as smaller than any instant.
C4_LruPicksMinimal ==
    select_out # None =>
        LET before == TheOne(select_in).map
            out == TheOne(select_out)
        IN  Len(before) > 0 /\ Unavailable(before) = 1..Len(before) =>
                /\ out.ret # None
                /\ out.strategy = "lru"
                /\ \A i \in 1..Len(before) :
                       NoLater(Entry(before, TheOne(out.ret).domain_name).last_used,
                               before[i].last_used)

\* The least recently used entry is not the first one in iteration order.
C4_Witness ==
    /\ select_out # None
    /\ Len(TheOne(select_in).map) = 2
    /\ Unavailable(TheOne(select_in).map) = {1, 2}
    /\ TheOne(select_in).map[1].last_used = Some(2)
    /\ TheOne(select_in).map[2].last_used = Some(1)
    /\ TheOne(select_out).ret = Some(TheOne(select_in).map[2].metadata)

\* C9: when for_each_live_ingestor returns, the action of every live peer
\* has run to its end, also when another peer's action failed: every peer
\* that answered has received the request.
C9_BroadcastBestEffort ==
    fan_pc = "done" /\ ingestor_infos # None =>
        /\ Len(results) = Len(live_ingestors)
        /\ \A i \in 1..Len(results) :
              /\ results[i] # None
              /\ TheOne(results[i]).kind = "Ok" => live_ingestors[i] \in received

\* Three live ingestors, the second fails with a transport error: the call
\* returns its Network error and the other two have received the request.
C9_Witness ==
    /\ fan_pc = "done"
    /\ Len(live_ingestors) = 3
    /\ results = <<Some(Ok), Some(Err("Network", live_ingestors[2])), Some(Ok)>>
    /\ fan_result = Some(Err("Network", live_ingestors[2]))
    /\ received = {live_ingestors[1], live_ingestors[3]}

\* C10: for_each_live_ingestor returns Ok exactly when the metadata load
\* succeeds and every live peer's action returns Ok; otherwise it returns one
\* error: the metadata error, or the error of the first failing peer in the
\* order of the live-peer list.
C10_FirstErrorReturned ==
    fan_pc = "done" =>
        LET ret == TheOne(fan_result)
        IN  /\ fan_result # None
            /\ ret = Ok <=> /\ ingestor_infos # None
                            /\ \A i \in 1..Len(results) : results[i] = Some(Ok)
            /\ ingestor_infos = None => ret = Err("Metastore", 0)
            /\ ingestor_infos # None /\ ret # Ok =>
                  \E i \in 1..Len(results) :
                      /\ results[i] = Some(ret)
                      /\ ret = Err("Network", live_ingestors[i])
                      /\ \A j \in 1..(i - 1) : results[j] = Some(Ok)

\* Two peers fail; the error of the earlier one in the list is returned.
C10_Witness ==
    /\ fan_pc = "done"
    /\ Len(live_ingestors) = 3
    /\ results[1] = Some(Ok)
    /\ results[2] # Some(Ok)
    /\ results[3] # Some(Ok)
    /\ fan_result = results[2]

C12_OperationValidatedFirst ==
    /\ [](operation # None =>
            IF TheOne(operation) \in {"add", "remove"}
            THEN fan_result # Some(Err("InvalidSyncOperation", 0))
            ELSE /\ fan_pc \in {"validate", "done"}
                 /\ fan_pc = "done" =>
                        fan_result = Some(Err("InvalidSyncOperation", 0))
                 /\ ingestor_infos = None
                 /\ probed = 0
                 /\ live_ingestors = <<>>
                 /\ results = <<>>
                 /\ received = {})
    /\ [][(fan_pc = "validate" /\ operation # None
             /\ TheOne(operation) \in {"add", "remove"}) =>
                 (fan_pc' = "to_vec" /\ fan_result' = None)]_vars

C12_Witness ==
    /\ operation = Some("update")
    /\ fan_pc = "done"
    /\ fan_result = Some(Err("InvalidSyncOperation", 0))
    /\ received = {}

C12_FanOutWitness ==
    /\ operation = Some("remove")
    /\ fan_pc = "done"
    /\ received # {}

\* --------------------------------------------------------- scheduler: claims
\* C13: no failure of a step of a tick terminates the scheduler task, and a
\* tick with a failed step is followed by the next tick.
C13_SchedulerResilient ==
    /\ [](sched_pc # "terminated"
            /\ \A k \in Ticks : job_pc[k] # "panicked")
    /\ \A k \in 1..(MaxTicks - 1) :
           (tick = k /\ HasFailure(job_log)) ~> (tick = k + 1)

C13_Witness ==
    /\ tick = 2
    /\ prev_failed
    /\ job_pc[2] = "done"

\* C14: a job that has ended has run fetch_cluster_billing_metrics after its
\* metrics step, whatever the metrics step gave, and has handed non-empty
\* serialized billing metrics to the "pbilling" ingestion.
C14_BillingAlwaysRuns ==
    \A k \in Ticks :
        (k = tick /\ job_pc[k] = "done") =>
            /\ \E i \in 1..Len(job_log) :
                 /\ job_log[i].step = "fetch_cluster_billing_metrics"
                 /\ job_log[i].tick = k
                 /\ job_log[1].step = "fetch_cluster_metrics"
                 /\ i > 1
                 /\ job_log[i].outcome = "serialized" =>
                        /\ Len(job_log) = i + 1
                        /\ job_log[i + 1].step = "ingest_pbilling"
            /\ job_log[1].outcome = "serialized" =>
                   job_log[2].step = "ingest_pmeta"

C14_Witness ==
    /\ tick = 1
    /\ job_pc[1] = "done"
    /\ Len(job_log) = 4
    /\ job_log[2] = LogEntry(1, "ingest_pmeta", "error")
    /\ job_log[4].step = "ingest_pbilling"

C14_ErrorWitness ==
    /\ tick = 1
    /\ job_pc[1] = "done"
    /\ job_log[1] = LogEntry(1, "fetch_cluster_metrics", "error")
    /\ job_log[2].step = "fetch_cluster_billing_metrics"

\* C15: in a tick the "pmeta" ingestion comes before the billing collection
\* and the "pbilling" ingestion, and a tick's job starts only when the job
\* of the tick before has ended: at most one job is running.
C15_TicksSerial ==
    /\ \A i, j \in 1..Len(job_log) :
           (/\ job_log[i].step = "ingest_pmeta"
            /\ job_log[j].step \in {"fetch_cluster_billing_metrics",
                                    "ingest_pbilling"}
            /\ job_log[i].tick = job_log[j].tick) => i < j
    /\ \A k \in Ticks :
           (k > 1 /\ job_pc[k] # "idle") => job_pc[k - 1] = "done"
    /\ Cardinality({k \in Ticks : job_pc[k] \notin {"idle", "done"}}) <= 1

C15_Witness ==
    /\ tick = 2
    /\ job_pc[1] = "done"
    /\ job_pc[2] = "ingest_pbilling"
    /\ \E i \in 1..Len(job_log) : job_log[i].step = "ingest_pmeta"

\* -------------------------------------------------- collection pass: claims
\* C16: a collection pass, operational or billing, fails on a metadata-load
\* error; when the metadata is loaded, a peer whose scrape does not parse is
\* skipped: the pass succeeds and returns the records of all the peers that
\* were scraped.
C16_ParseErrorSkipsPeer ==
    collect_pc = "done" =>
        IF \E role \in RoleSet : metadata_result[role] = "error"
        THEN TheOne(collect_result).kind # "Ok"
        ELSE (\A n \in Nodes : scrape[n] # Some("unreadable")) =>
                 /\ TheOne(collect_result).kind = "Ok"
                 /\ TheOne(collect_result).records =
                        {n \in Nodes : scrape[n] = Some("ok")}

\* ---------------------------------------------- billing aggregation: claims
\* The family of a metric: "simple", "object_store", "llm" or "none".
FamilyOf(metric) ==
    CASE is_simple_metric(metric) -> "simple"
      [] is_object_store_metric(metric) -> "object_store"
      [] is_llm_metric(metric) -> "llm"
      [] OTHER -> "none"

\* A sample is recorded if it is a Counter of a billing metric with the
\* labels its family requires.
IsRecorded(sample) ==
    /\ sample.is_counter
    /\ sample.labels.date # None
    /\ CASE FamilyOf(sample.metric) = "simple" -> TRUE
         [] FamilyOf(sample.metric) = "object_store" -> sample.labels.method # None
         [] FamilyOf(sample.metric) = "llm" ->
                sample.labels.provider # None /\ sample.labels.model # None
         [] OTHER -> FALSE

\* The key of a recorded sample: metric type, discriminating labels, date.
KeyOf(sample) ==
    LET family == FamilyOf(sample.metric)
    IN  [metric_type |-> MetricTypeOf(sample.metric),
         date |-> TheOne(sample.labels.date),
         method |-> IF family = "object_store" THEN sample.labels.method ELSE None,
         provider |-> IF family = "llm" THEN sample.labels.provider ELSE None,
         model |-> IF family = "llm" THEN sample.labels.model ELSE None]

RecordedAt(samples) == {i \in 1..Len(samples) : IsRecorded(samples[i])}

\* The value recorded under a key: that of the last sample with the key.
LastValue(samples, key) ==
    LET at == {i \in RecordedAt(samples) : KeyOf(samples[i]) = key}
    IN  as_u64(samples[Max(at)].halves)

\* An event without the node and the time: its key and its value.
Row(event) ==
    [metric_type |-> event.metric_type, date |-> event.date,
     method |-> event.method, provider |-> event.provider,
     model |-> event.model, value |-> event.value]

ExpectedRows(samples) ==
    {[metric_type |-> key.metric_type, date |-> key.date, method |-> key.method,
      provider |-> key.provider, model |-> key.model,
      value |-> LastValue(samples, key)] :
        key \in {k \in {KeyOf(samples[i]) : i \in RecordedAt(samples)} :
                    LastValue(samples, k) > 0}}

\* C17: no event returned by extract_billing_metrics_from_samples has
\* value 0, in any family.
C17_NoZeroValueEvent ==
    bill_events # None =>
        \A i \in 1..Len(TheOne(bill_events)) : TheOne(bill_events)[i].value # 0

C17_Witness ==
    /\ bill_events = Some(<<>>)
    /\ Len(bill_samples) = 2
    /\ IsRecorded(bill_samples[1]) /\ bill_samples[1].halves > 1
    /\ IsRecorded(bill_samples[2]) /\ bill_samples[2].halves < 0
    /\ KeyOf(bill_samples[1]) = KeyOf(bill_samples[2])

\* C19: the events are exactly one per key whose recorded value, that of
\* the last sample with the key, is > 0; a simple event has no method,
\* provider or model, an object-store event a method only, an LLM event a
\* provider and a model only; the four samples of the scenario give three
\* events.
C19_OneEventPerKey ==
    bill_events # None =>
        LET events == TheOne(bill_events)
        IN  /\ \A i, j \in 1..Len(events) :
                   Row(events[i]) = Row(events[j]) => i = j
            /\ {Row(events[i]) : i \in 1..Len(events)} = ExpectedRows(bill_samples)
            /\ \A i \in 1..Len(events) :
                   LET e == events[i]
                   IN  CASE e.metric_type \in Range(SimpleMetricTypes) ->
                                e.method = None /\ e.provider = None /\ e.model = None
                         [] e.metric_type \in Range(ObjectStoreMetricTypes) ->
                                e.method # None /\ e.provider = None /\ e.model = None
                         [] e.metric_type \in Range(LlmMetricTypes) ->
                                e.method = None /\ e.provider # None /\ e.model # None
                         [] OTHER -> FALSE
            /\ bill_samples = S4Samples => Len(events) = 3

C19_Witness ==
    /\ bill_samples = S4Samples
    /\ bill_events # None
    /\ Len(TheOne(bill_events)) = 3

C19_LastWinsWitness ==
    /\ Len(bill_samples) = 2
    /\ IsRecorded(bill_samples[1]) /\ IsRecorded(bill_samples[2])
    /\ KeyOf(bill_samples[1]) = KeyOf(bill_samples[2])
    /\ bill_samples[1].halves = 10 /\ bill_samples[2].halves = 7
    /\ bill_events # None
    /\ Len(TheOne(bill_events)) = 1
    /\ TheOne(bill_events)[1].value = 3

\* C20: all the events of one call carry the same event_time, the time at
\* which the collector was constructed.
C20_SharedEventTime ==
    bill_events # None =>
        \A i \in 1..Len(TheOne(bill_events)) :
            TheOne(bill_events)[i].event_time = utc_now

C20_Witness ==
    /\ bill_events # None
    /\ \E i, j \in 1..Len(TheOne(bill_events)) :
         /\ TheOne(bill_events)[i].method # None
         /\ TheOne(bill_events)[j].provider # None
         /\ TheOne(bill_events)[i].event_time = TheOne(bill_events)[j].event_time

Count(seq, x) == Cardinality({i \in 1..Len(seq) : seq[i] = x})

SameMultiset(a, b) ==
    /\ Len(a) = Len(b)
    /\ \A x \in Range(a) \cup Range(b) : Count(a, x) = Count(b, x)

Rows(events) == [i \in 1..Len(events) |-> Row(events[i])]

\* No two recorded samples with the same key differ in the value recorded.
NoConflictingSamples(samples) ==
    \A i, j \in RecordedAt(samples) :
        KeyOf(samples[i]) = KeyOf(samples[j]) =>
            as_u64(samples[i].halves) = as_u64(samples[j].halves)

\* C18 as stated: two calls on the same samples, in any order, for the same
\* node return the same multiset of events.
C18_SameEventsOnSameSamples ==
    (bill_first # None /\ bill_events # None) =>
        SameMultiset(TheOne(bill_first).events, TheOne(bill_events))

\* C18, amended: two calls on the same samples for the same node return the
\* same multiset of events apart from event_time, whatever the emission
\* order, if the samples are given in the same order or no two recorded
\* samples with the same key differ in value.
C18_SameRowsOnSameSamples ==
    (/\ bill_first # None
     /\ bill_events # None
     /\ \/ TheOne(bill_first).samples = bill_samples
        \/ NoConflictingSamples(bill_samples)) =>
        SameMultiset(Rows(TheOne(bill_first).events), Rows(TheOne(bill_events)))

C18_Witness ==
    /\ bill_first # None
    /\ bill_events # None
    /\ TheOne(bill_first).samples # bill_samples
    /\ NoConflictingSamples(bill_samples)
    /\ Len(TheOne(bill_events)) = 2
    /\ Rows(TheOne(bill_first).events) # Rows(TheOne(bill_events))

\* ------------------------------------------------------ admin surface: claims
Registered == {n \in InfoNodes : info_node_role[n] # "absent"}

\* C21: once the metadata of the four roles has loaded, get_cluster_info
\* answers Ok with exactly one ClusterInfo per registered node: reachable
\* with no error for a node whose /about exchange gave a string `staging`,
\* not reachable with the error recorded for a node whose exchange failed in
\* any way (transport error, unreadable or non-JSON body, missing or
\* non-string `staging`).
C21_ClusterInfoNeverFails ==
    (info_pc = "done" /\ metadata_error(info_metadata_result) = 0) =>
        LET r == TheOne(info_result)
        IN  /\ r.kind = "Ok"
            /\ Len(r.infos) = Cardinality(Registered)
            /\ \A n \in Registered :
                 \E i \in 1..Len(r.infos) :
                    /\ r.infos[i].peer = n
                    /\ r.infos[i].reachable = (about[n] = Some("ok"))
                    /\ (r.infos[i].error = None) = (about[n] = Some("ok"))


RemoveAnswered == rm_pc = "done"

\* C22: when the liveness probe of the target succeeds, remove_node returns
\* an error and makes no delete_node_metadata call for any role.
C22_LiveTargetRejected ==
    /\ rm_live = Some(TRUE) => rm_calls = <<>>
    /\ (RemoveAnswered /\ rm_live = Some(TRUE)) =>
          /\ TheOne(rm_result).kind = "Invalid"
          /\ TheOne(rm_result).message = "live"

C22_Witness == RemoveAnswered /\ rm_live = Some(TRUE)

\* The roles of the calls made are the first ones of DeleteOrder.
CallsInOrder ==
    \A i \in 1..Len(rm_calls) : rm_calls[i].role = DeleteOrder[i]

CallFailed == \E i \in 1..Len(rm_calls) : rm_calls[i].outcome = "metastore_error"

CallRemoved == \E i \in 1..Len(rm_calls) : rm_calls[i].outcome = "removed"

\* C23, as stated: for a target that is not live, remove_node attempts the
\* deletion under all four role keys and answers "removed successfully" if
\* and only if at least one deletion reported a removal, "not found"
\* otherwise.
C23_AllFourAttempted ==
    (RemoveAnswered /\ rm_live = Some(FALSE)) =>
        /\ {rm_calls[i].role : i \in 1..Len(rm_calls)} = Range(DeleteOrder)
        /\ (TheOne(rm_result).kind = "Ok") = CallRemoved
        /\ ~CallRemoved =>
              /\ TheOne(rm_result).kind = "Invalid"
              /\ TheOne(rm_result).message = "not found"

\* C23, amended: for a target that is not live the deletions are attempted
\* in the order Ingestor, Indexer, Querier, Prism until one fails with a
\* metastore error; if none fails all four are attempted and the answer is
\* "removed successfully" if and only if at least one reported a removal,
\* "not found" otherwise; if one fails that error is the answer and the
\* later role keys are not attempted.
C23_AllFourUnlessMetastoreError ==
    (RemoveAnswered /\ rm_live = Some(FALSE)) =>
        /\ CallsInOrder
        /\ IF CallFailed
           THEN /\ rm_calls[Len(rm_calls)].outcome = "metastore_error"
                /\ \A i \in 1..(Len(rm_calls) - 1) : rm_calls[i].outcome # "metastore_error"
                /\ TheOne(rm_result).kind = "MetastoreError"
           ELSE /\ Len(rm_calls) = Len(DeleteOrder)
                /\ (TheOne(rm_result).kind = "Ok") = CallRemoved
                /\ CallRemoved => TheOne(rm_result).message = "removed successfully"
                /\ ~CallRemoved =>
                      /\ TheOne(rm_result).kind = "Invalid"
                      /\ TheOne(rm_result).message = "not found"

\* All four deletions answered, only the last one with a removal.
C23_Witness ==
    /\ RemoveAnswered /\ rm_live = Some(FALSE)
    /\ Len(rm_calls) = Len(DeleteOrder)
    /\ \A i \in 1..Len(rm_calls) : (rm_calls[i].outcome = "removed") = (i = Len(rm_calls))

\* A deletion failed after an earlier one had reported a removal.
C23_AbortedWitness ==
    /\ RemoveAnswered /\ rm_live = Some(FALSE)
    /\ CallFailed /\ CallRemoved


\* The probes made are those of the first ingestors of the metadata, in
\* metadata order.
ProbesInOrder ==
    demo_infos # None =>
        /\ Len(demo_probes) <= Len(TheOne(demo_infos))
        /\ \A i \in 1..Len(demo_probes) : demo_probes[i].ingestor = TheOne(demo_infos)[i]

\* C24: get_demo_data_from_ingestor sends at most one request, to the first
\* ingestor in metadata order whose liveness probe succeeds, and probes no
\* ingestor after that one; with no live ingestor it fails without sending
\* a request; when the one request fails (transport error or non-2xx) the
\* error is returned and no other ingestor is tried.
C24_FirstLiveNoFailover ==
    /\ Len(demo_requests) <= 1
    /\ ProbesInOrder
    /\ \A i \in 1..Len(demo_probes) : demo_probes[i].live => i = Len(demo_probes)
    /\ \A i \in 1..Len(demo_requests) :
          /\ demo_probes[Len(demo_probes)].live
          /\ demo_requests[i].ingestor = demo_probes[Len(demo_probes)].ingestor
    /\ demo_pc = "done" =>
          /\ (\A i \in 1..Len(demo_probes) : ~demo_probes[i].live) =>
                /\ demo_requests = <<>>
                /\ TheOne(demo_result).kind = "Invalid"
          /\ (\E i \in 1..Len(demo_probes) : demo_probes[i].live) =>
                /\ Len(demo_requests) = 1
                /\ (TheOne(demo_result).kind = "Ok") = (demo_requests[1].outcome = "ok")
                /\ demo_requests[1].outcome # "ok" =>
                      /\ TheOne(demo_result).kind = "Invalid"
                      /\ TheOne(demo_result).message = demo_requests[1].outcome

\* The second ingestor was the first live one, a third was registered, and
\* the request to the second failed.
C24_Witness ==
    /\ demo_pc = "done"
    /\ demo_infos # None
    /\ Len(TheOne(demo_infos)) = 3
    /\ Len(demo_probes) = 2
    /\ Len(demo_requests) = 1
    /\ demo_requests[1].outcome = "non_success"

\* No ingestor was live.
C24_NoLiveWitness ==
    /\ demo_pc = "done"
    /\ demo_infos # None
    /\ Len(demo_probes) = 2
    /\ \A i \in 1..Len(demo_probes) : ~demo_probes[i].live


\* The keys starting with "COUNT".
CountKeys ==
    {key \in JsonKeys : Len(key) >= 5 /\ \A i \in 1..5 : key[i] = COUNT[i]}

\* The sum of the values under `key` in the objects that have it.
RECURSIVE SumUnder(_, _, _)
SumUnder(objects, key, i) ==
    IF i > Len(objects) THEN 0
    ELSE (IF key \in DOMAIN objects[i] THEN objects[i][key] ELSE 0)
         + SumUnder(objects, key, i + 1)

Flattened(key) ==
    flat_out = Some([kind |-> "returned",
                     value |-> <<[k \in {key} |-> SumUnder(flat_objects, key, 1)]>>])

Unchanged == flat_out = Some([kind |-> "returned", value |-> flat_objects])

\* C25, as stated: flatten_objects_for_count returns the single object
\* {key: sum of all values} exactly when the input is non-empty and every
\* object has the same single key and that key starts with "COUNT"; in
\* every other case it returns the input list unchanged.
C25_FlattenIffSameSingleCountKey ==
    flat_out # None =>
        IF Len(flat_objects) > 0
           /\ \E key \in CountKeys :
                 \A i \in 1..Len(flat_objects) : DOMAIN flat_objects[i] = {key}
        THEN \E key \in CountKeys : Flattened(key)
        ELSE Unchanged

\* C25, amended: the single object {key: sum of all values} is returned
\* exactly when the input is non-empty, the first object has a single key
\* starting with "COUNT" and every other object has that same single key
\* or no key at all; the call panics when the input is non-empty, every
\* key in it starts with "COUNT" and the first object has no key; in every
\* other case the input list is returned unchanged.
C25_FlattenRule ==
    flat_out # None =>
        LET keys == UNION {DOMAIN flat_objects[i] : i \in 1..Len(flat_objects)}
        IN  IF Len(flat_objects) = 0 \/ ~(keys \subseteq CountKeys)
            THEN Unchanged
            ELSE IF DOMAIN flat_objects[1] = {}
            THEN TheOne(flat_out).kind = "panicked"
            ELSE IF Cardinality(keys) = 1
            THEN Flattened(TheOne(keys))
            ELSE Unchanged

\* Two objects under one COUNT key were summed.
C25_Witness ==
    /\ Len(flat_objects) = 2
    /\ \E key \in CountKeys :
          /\ \A i \in 1..2 : DOMAIN flat_objects[i] = {key}
          /\ Flattened(key)
          /\ TheOne(flat_out).value[1][key] = flat_objects[1][key] + flat_objects[2][key]

\* An object without keys after an object with a COUNT key was left out.
C25_EmptyObjectWitness ==
    /\ Len(flat_objects) = 2
    /\ DOMAIN flat_objects[2] = {}
    /\ \E key \in CountKeys : Flattened(key)


\* ------------------------------------------------- dispatcher: frame effects
\* The list L of a registry: the domains of its available entries, in
\* iteration order.
AvailableList(map) ==
    LET picked == {i \in 1..Len(map) : map[i].available}
        before(i) == Cardinality({j \in picked : j < i})
    IN  [k \in 1..Cardinality(picked) |->
            map[TheOne({i \in picked : before(i) = k - 1})].domain]

\* C26: with L the available domains in map iteration order, a pointer
\* naming a domain of L that is not the last element selects the element
\* after it; a pointer naming the last element of L, an unset pointer and a
\* pointer naming a domain not in L select the first element of L; whenever
\* L is non-empty the pointer becomes the selected domain; when L is empty
\* round-robin selects nothing and the pointer is unchanged.
C26_RoundRobinRule ==
    select_out # None =>
        LET given == TheOne(select_in)
            out == TheOne(select_out)
            L == AvailableList(given.map)
            at == {i \in 1..Len(L) : Some(L[i]) = given.last_used}
            chosen == IF at # {} /\ TheOne(at) < Len(L) THEN L[TheOne(at) + 1] ELSE L[1]
        IN  IF Len(L) = 0
            THEN /\ out.strategy # "round_robin"
                 /\ LAST_USED_QUERIER = given.last_used
            ELSE /\ out.strategy = "round_robin"
                 /\ out.ret = Some(Metadata(chosen))
                 /\ LAST_USED_QUERIER = Some(chosen)

\* The pointer named the first of two available domains and the second was
\* selected.
C26_Witness ==
    /\ select_out # None
    /\ LET given == TheOne(select_in)
           L == AvailableList(given.map)
       IN  /\ Len(L) = 2
           /\ given.last_used = Some(L[1])
           /\ LAST_USED_QUERIER = Some(L[2])

\* The pointer named the last available domain and the first was selected.
C26_WrapWitness ==
    /\ select_out # None
    /\ LET given == TheOne(select_in)
           L == AvailableList(given.map)
       IN  /\ Len(L) = 2
           /\ given.last_used = Some(L[2])
           /\ LAST_USED_QUERIER = Some(L[1])

\* No entry was available: the pointer stayed as it was.
C26_EmptyWitness ==
    /\ select_out # None
    /\ LET given == TheOne(select_in)
       IN  /\ Len(given.map) > 0
           /\ Len(AvailableList(given.map)) = 0
           /\ given.last_used # None
           /\ LAST_USED_QUERIER = given.last_used


\* The entries of domain d in a registry (at most one).
EntriesOf(map, d) == {e \in Range(map) : e.domain = d}

\* C27: when get_available_querier returns querier D, the entry of D is
\* unavailable with last_used the instant of this acquire, the value
\* returned is the metadata of that entry, and every other entry that was
\* in the registry and stays in it keeps its available flag and last_used.
C27_AcquireFrame ==
    [][\A q \in Queries :
          (pc[q] = "probing" /\ pc'[q] = "request") =>
              /\ querier'[q] # None
              /\ clock' > clock
              /\ LET D == TheOne(querier'[q]).domain_name
                 IN  /\ \E e \in EntriesOf(QUERIER_MAP', D) :
                           /\ e.available = FALSE
                           /\ e.last_used = Some(clock')
                           /\ querier'[q] = Some(e.metadata)
                     /\ \A d \in (Keys(QUERIER_MAP) \cap Keys(QUERIER_MAP')) \ {D} :
                           \A old \in EntriesOf(QUERIER_MAP, d) :
                           \A new \in EntriesOf(QUERIER_MAP', d) :
                              /\ new.available = old.available
                              /\ new.last_used = old.last_used]_vars

\* A querier was acquired while the other registered querier, dispatched
\* earlier, is still out.
C27_Witness ==
    \E q \in Queries :
        /\ pc[q] = "request"
        /\ Len(QUERIER_MAP) = 2
        /\ \A i \in 1..2 : ~QUERIER_MAP[i].available
        /\ \E e \in EntriesOf(QUERIER_MAP, TheOne(querier[q]).domain_name) :
              /\ e.last_used = Some(clock)
              /\ \E o \in Range(QUERIER_MAP) : o.last_used # None /\ o.last_used # e.last_used

\* C28: mark_querier_available(d) sets available on the entry of d when d
\* is registered and changes nothing else: last_used of d, every other
\* entry, the registered domains, their iteration order and the last-used
\* pointer stay; when d is not registered the registry is unchanged.
C28_MarkAvailableFrame ==
    [][\A q \in Queries :
          (pc[q] = "request" /\ pc'[q] = "done") =>
              LET d == TheOne(querier[q]).domain_name
              IN  /\ LAST_USED_QUERIER' = LAST_USED_QUERIER
                  /\ Len(QUERIER_MAP') = Len(QUERIER_MAP)
                  /\ \A i \in 1..Len(QUERIER_MAP) :
                        /\ QUERIER_MAP'[i].domain = QUERIER_MAP[i].domain
                        /\ QUERIER_MAP'[i].metadata = QUERIER_MAP[i].metadata
                        /\ QUERIER_MAP'[i].last_used = QUERIER_MAP[i].last_used
                        /\ QUERIER_MAP'[i].available =
                              (QUERIER_MAP[i].domain = d \/ QUERIER_MAP[i].available)
                  /\ d \notin Keys(QUERIER_MAP) => QUERIER_MAP' = QUERIER_MAP]_vars

\* A call has just released its querier: the entry is available and keeps
\* its last_used, while the other entry is still dispatched.
C28_Witness ==
    /\ returned # None
    /\ TheOne(returned).marks = 1
    /\ Len(QUERIER_MAP) = 2
    /\ \E e \in EntriesOf(QUERIER_MAP, TheOne(TheOne(returned).querier).domain_name) :
          /\ e.available
          /\ e.last_used # None
          /\ \E o \in Range(QUERIER_MAP) : ~o.available

\* A call has just released a querier that is no longer registered.
C28_AbsentWitness ==
    /\ returned # None
    /\ TheOne(returned).marks = 1
    /\ Len(QUERIER_MAP) > 0
    /\ TheOne(TheOne(returned).querier).domain_name \notin Keys(QUERIER_MAP)


\* C29: in the refresh of get_available_querier a live domain that is in
\* the registry keeps its available flag and its last_used (an entry that is
\* dispatched stays unavailable), a live domain that is not in the registry
\* is inserted available with last_used None, which is also how a domain
\* that was removed as dead comes back; the entry selected by the same call
\* is the one exception, and it is chosen among the entries that are
\* available after the refresh whenever there is one.
C29_RefreshFrame ==
    [][Len(selected') > Len(selected) =>
          LET live == cycle_live'
              sel == selected'[Len(selected')]
              fresh == {d \in live : \A old \in EntriesOf(QUERIER_MAP, d) : old.available}
          IN  /\ \A d \in live : \E new \in EntriesOf(QUERIER_MAP', d) :
                    /\ new.metadata = Metadata(d)
                    /\ d # sel =>
                          /\ \A old \in EntriesOf(QUERIER_MAP, d) :
                                /\ new.available = old.available
                                /\ new.last_used = old.last_used
                          /\ d \notin Keys(QUERIER_MAP) =>
                                new.available /\ new.last_used = None
              /\ fresh # {} => sel \in fresh]_vars

\* A querier that was dispatched earlier, went away and is live again is
\* in the registry as a new entry, while another querier was selected.
C29_Witness ==
    /\ Len(selected) = MaxRefreshes
    /\ \E d \in cycle_live :
          /\ d # selected[Len(selected)]
          /\ \E i \in 1..(Len(selected) - 1) : selected[i] = d
          /\ \E e \in EntriesOf(QUERIER_MAP, d) : e.available /\ e.last_used = None

\* A querier that is out stays unavailable, with its last_used, through a
\* refresh in which another querier is selected.
C29_DispatchedWitness ==
    /\ Len(selected) = 2
    /\ selected[1] # selected[2]
    /\ selected[1] \in cycle_live
    /\ \E e \in EntriesOf(QUERIER_MAP, selected[1]) : ~e.available /\ e.last_used = Some(1)


\* ------------------------------------------------------ lock order: claims
\* The tasks that hold or are waiting for a LAST_USED_QUERIER guard.
AtPointer ==
    lk_ptr_readers \cup lk_ptr_writer
        \cup {t \in Tasks : lk_pc[t] \in {"read_pointer", "write_pointer"}}

\* C30: a task takes or waits for a LAST_USED_QUERIER guard only while it
\* holds the QUERIER_MAP write guard, a task waiting for the pointer's
\* write guard holds no read guard of it, and whenever a task has not
\* returned some task can take a step: no interleaving of concurrent
\* get_available_querier and mark_querier_available calls is stuck.
C30_LockOrderNoDeadlock ==
    /\ \A t \in AtPointer : lk_map = Some(t)
    /\ \A t \in Tasks : lk_pc[t] = "write_pointer" => t \notin lk_ptr_readers
    /\ (\E t \in Tasks : lk_pc[t] # "done") => ENABLED NextLocks

\* One task holds both write guards while an acquire and a release wait for
\* the map.
C30_Witness ==
    \E t, a, m \in Tasks :
        /\ lk_map = Some(t) /\ lk_ptr_writer = Some(t)
        /\ lk_kind[a] = "get_available_querier" /\ lk_pc[a] = "start"
        /\ lk_kind[m] = "mark_querier_available" /\ lk_pc[m] = "start"

\* Every task has returned.
C30_AllReturned == \A t \in Tasks : lk_pc[t] = "done"

\* ---------------------------------------------- fan-out and collection: claims
\* The number of times the action has run for ingestor p.
Invocations(p) ==
    Cardinality({i \in 1..Len(results) : results[i] # None /\ live_ingestors[i] = p})

ProbedAs(p, answer) ==
    \E j \in 1..Len(fan_probes) : fan_probes[j] = [peer |-> p, live |-> answer]

\* C31: in for_each_live_ingestor the action never runs before every
\* reported ingestor is probed, never runs more than once for an ingestor,
\* never runs for an ingestor whose probe failed, and has run exactly once
\* for every ingestor whose probe succeeded when the call returns.
C31_ActionOncePerLivePeer ==
    ingestor_infos # None =>
        /\ (\E i \in 1..Len(results) : results[i] # None) =>
              Len(fan_probes) = Len(TheOne(ingestor_infos))
        /\ \A p \in Ingestors :
              /\ Invocations(p) <= 1
              /\ ~ProbedAs(p, TRUE) => Invocations(p) = 0
              /\ (fan_pc = "done" /\ ProbedAs(p, TRUE)) => Invocations(p) = 1

C31_Witness ==
    /\ fan_pc = "done"
    /\ \E p, q \in Ingestors :
         /\ ProbedAs(p, TRUE) /\ Invocations(p) = 1
         /\ ProbedAs(q, FALSE) /\ Invocations(q) = 0

\* The entries of the latest tick's job for one step.
StepsOf(step) == {i \in 1..Len(job_log) : job_log[i].step = step}

FetchGave(step, outcomes) ==
    \E i \in StepsOf(step) : job_log[i].outcome \in outcomes

\* C32: in each tick ingest_internal_stream is called at most once for
\* "pmeta" and at most once for "pbilling", and a call is made only after the
\* collection pass of that stream gave a list that is neither an error nor
\* empty.
C32_IngestOnlyNonEmpty ==
    /\ Cardinality(StepsOf("ingest_pmeta")) <= 1
    /\ Cardinality(StepsOf("ingest_pbilling")) <= 1
    /\ (StepsOf("ingest_pmeta") # {} \/ (tick > 0 /\ job_pc[tick] = "ingest_pmeta")) =>
          /\ ~FetchGave("fetch_cluster_metrics", {"error", "empty"})
          /\ FetchGave("fetch_cluster_metrics", {"serialized"})
    /\ (StepsOf("ingest_pbilling") # {} \/ (tick > 0 /\ job_pc[tick] = "ingest_pbilling")) =>
          /\ ~FetchGave("fetch_cluster_billing_metrics", {"error", "empty"})
          /\ FetchGave("fetch_cluster_billing_metrics", {"serialized"})

\* A tick that ingested into both streams.
C32_Witness ==
    /\ tick > 0 /\ job_pc[tick] = "done"
    /\ StepsOf("ingest_pmeta") # {}
    /\ StepsOf("ingest_pbilling") # {}

\* A tick whose passes gave an error and an empty list: nothing is ingested.
C32_SkippedWitness ==
    /\ tick > 0 /\ job_pc[tick] = "done"
    /\ FetchGave("fetch_cluster_metrics", {"error"})
    /\ FetchGave("fetch_cluster_billing_metrics", {"empty"})
    /\ StepsOf("ingest_pmeta") = {} /\ StepsOf("ingest_pbilling") = {}

\* The nodes whose scrape ended because the node was not live or the
\* /metrics request failed at transport level.
NotScraped == {n \in Nodes : scrape[n] \in {Some("not_live"), Some("transport_error")}}

\* C33: in a collection pass whose metadata has loaded, a peer that is not
\* live or whose /metrics request fails at transport level contributes no
\* records and is not the peer of a returned error, and the pass returns
\* the records of every other peer that was scraped.
C33_DeadPeerSkipped ==
    (collect_pc = "done" /\ metadata_error(metadata_result) = 0) =>
        \A n \in NotScraped :
            /\ n \notin TheOne(collect_result).records
            /\ TheOne(collect_result).peer # n
            /\ \A m \in Nodes \ {n} :
                  scrape[m] = Some("ok") => m \in TheOne(collect_result).records

\* The events name the recorded sample they come from: one with the key of
\* the event and its value.
FromRecordedSample(samples, event) ==
    \E i \in RecordedAt(samples) :
        /\ KeyOf(samples[i]) = [metric_type |-> event.metric_type, date |-> event.date,
                                method |-> event.method, provider |-> event.provider,
                                model |-> event.model]
        /\ as_u64(samples[i].halves) = event.value

\* C34: every event returned by extract_billing_metrics_from_samples comes
\* from a sample that is a Counter of one of the twelve billing metrics with
\* the labels its family requires, and the events are those the call
\* returns on these samples alone: a gauge, an unknown metric and a sample
\* without a required label change nothing.
C34_OnlyRecordedSamplesCount ==
    bill_events # None =>
        /\ \A i \in 1..Len(TheOne(bill_events)) :
              FromRecordedSample(bill_samples, TheOne(bill_events)[i])
        /\ \E iter \in IterationOrders(bill_samples) :
              TheOne(bill_events) =
                  extract_billing_metrics_from_samples(
                      SelectSeq(bill_samples, IsRecorded),
                      TheOne(bill_node), utc_now, iter)

\* A recorded sample between a gauge under its key and a sample without a
\* label: one event.
C34_Witness ==
    /\ bill_events # None
    /\ Len(TheOne(bill_events)) = 1
    /\ Len(bill_samples) = 3
    /\ ~bill_samples[1].is_counter
    /\ IsRecorded(bill_samples[2])
    /\ bill_samples[3].is_counter /\ ~IsRecorded(bill_samples[3])
    /\ FamilyOf(bill_samples[3].metric) # "none"

\* ------------------------------------------------ dispatcher: further claims
\* C35: when no entry of the registry is available and get_available_querier
\* returns a querier, which it then chose by the least-recently-used rule,
\* LAST_USED_QUERIER has the value it had before the call, and the entry
\* returned is the one dispatched.
C35_LruKeepsPointer ==
    select_out # None =>
        LET given == TheOne(select_in)
            out == TheOne(select_out)
        IN  (out.ret # None /\ Unavailable(given.map) = 1..Len(given.map)) =>
                /\ LAST_USED_QUERIER = given.last_used
                /\ Entry(QUERIER_MAP, TheOne(out.ret).domain_name).last_used = Some(clock)

\* The fallback returned a querier other than the one the pointer names.
C35_Witness ==
    /\ select_out # None
    /\ LET given == TheOne(select_in)
           out == TheOne(select_out)
       IN  /\ Len(given.map) = 2
           /\ Unavailable(given.map) = {1, 2}
           /\ out.ret # None
           /\ given.last_used # None
           /\ given.last_used # Some(TheOne(out.ret).domain_name)
           /\ LAST_USED_QUERIER = given.last_used

\* C36: in every reachable state of the registry an entry that is not
\* available has last_used set; an entry never used is available.
C36_UnavailableWasUsed ==
    \A i \in 1..Len(QUERIER_MAP) :
        ~QUERIER_MAP[i].available => QUERIER_MAP[i].last_used # None

\* A querier is out next to an entry that was never used, and a second
\* entry was used and released.
C36_Witness ==
    /\ Len(QUERIER_MAP) = 2
    /\ \E i, j \in 1..2 :
         /\ ~QUERIER_MAP[i].available /\ QUERIER_MAP[i].last_used # None
         /\ QUERIER_MAP[j].available /\ QUERIER_MAP[j].last_used = None

\* The fallback ran: the one entry is out to two queries.
C36_LruWitness ==
    /\ Len(QUERIER_MAP) = 1
    /\ ~QUERIER_MAP[1].available
    /\ Cardinality(InFlightOn(QUERIER_MAP[1].domain)) = 2

\* C37: a send_query_request call that ends because get_node_info(Querier)
\* failed or reported no querier changes neither QUERIER_MAP nor
\* LAST_USED_QUERIER, takes no lock and no instant, sends no request and
\* makes no mark_querier_available call.
C37_EarlyFailureFrame ==
    [][\A q \in Queries :
          (pc[q] = "start" /\ pc'[q] = "done") =>
              /\ QUERIER_MAP' = QUERIER_MAP
              /\ LAST_USED_QUERIER' = LAST_USED_QUERIER
              /\ map_lock' = map_lock
              /\ clock' = clock
              /\ TheOne(returned').querier = None
              /\ TheOne(returned').resp = ""
              /\ TheOne(returned').marks = 0
              /\ TheOne(returned').result \in {"MetastoreError", "NoAvailableQuerier"}]_vars

\* The metastore reported no querier while an entry of a querier that was
\* registered before is still in the registry, and the entry stayed.
C37_Witness ==
    /\ returned # None
    /\ TheOne(returned).result = "NoAvailableQuerier"
    /\ TheOne(returned).reported = Some({})
    /\ Len(QUERIER_MAP) > 0
    /\ LAST_USED_QUERIER # None

C37_MetastoreWitness ==
    /\ returned # None
    /\ TheOne(returned).result = "MetastoreError"
    /\ Len(QUERIER_MAP) > 0
    /\ \E i \in 1..Len(QUERIER_MAP) : ~QUERIER_MAP[i].available

\* The queries that called get_available_querier.
Issued == {q \in Queries : pc[q] # "done"}

\* C38: when k get_available_querier calls are issued at the same time with
\* the same live set of N >= k queriers, every entry available and no
\* querier released, the calls that have returned have pairwise distinct
\* queriers, in every interleaving, and at most one call is between the
\* grant of the write guard and its return.
C38_ConcurrentAcquiresDistinct ==
    /\ Cardinality({q \in Queries :
                       pc[q] \in {"probing", "write_pointer", "dispatch"}}) <= 1
    /\ Cardinality(Issued) <= Cardinality(cycle_live) =>
          \A q1, q2 \in Queries :
              (q1 # q2 /\ pc[q1] = "request" /\ pc[q2] = "request") =>
                  querier[q1] # querier[q2]

\* Every querier of the live set is out, each to one query.
C38_Witness ==
    /\ Cardinality(Issued) = Cardinality(cycle_live)
    /\ Cardinality(Issued) >= 2
    /\ \A q \in Issued : pc[q] = "request"
    /\ \A q1, q2 \in Issued : q1 # q2 => querier[q1] # querier[q2]

\* More calls than live queriers: the fallback gives one querier to two.
C38_MoreCallsWitness ==
    /\ Cardinality(Issued) > Cardinality(cycle_live)
    /\ \E q1, q2 \in Issued :
         q1 # q2 /\ pc[q1] = "request" /\ pc[q2] = "request" /\ querier[q1] = querier[q2]

\* The entry of d is available while a query dispatched to d is in flight.
AvailableInFlight(d) ==
    /\ d \in Keys(QUERIER_MAP)
    /\ Entry(QUERIER_MAP, d).available
    /\ InFlightOn(d) # {}

\* The entry of d is not available and no query dispatched to d is in
\* flight.
UnavailableIdle(d) ==
    /\ d \in Keys(QUERIER_MAP)
    /\ ~Entry(QUERIER_MAP, d).available
    /\ InFlightOn(d) = {}

\* A query releases d while another query dispatched to d is in flight.
ReleasedByOneOfSeveral(d) ==
    /\ Cardinality(InFlightOn(d)) >= 2
    /\ \E q \in InFlightOn(d) : pc'[q] = "done"

\* A refresh inserts d, which was pruned while a query dispatched to it is
\* in flight.
InsertedAgain(d) ==
    /\ d \notin Keys(QUERIER_MAP)
    /\ d \in Keys(QUERIER_MAP')
    /\ InFlightOn(d) # {}

=============================================================================
